---- MODULE Spec2Model ----
(***************************************************************************)
(* Model of the coroutine task runtime of example_4d.h                     *)
(* (namespace rtc::coro::mpp_mcpp::v4d): the executor thread pool, the     *)
(* continuation manager, the shared state of a task, the task scheduler    *)
(* and the task awaiter, driven by client coroutines of the shape of mul   *)
(* and mul_add.                                                            *)
(*                                                                         *)
(* Granularity.  Every critical section of executor::mutex_ is one step    *)
(* (it touches the queue only and takes no other lock inside).  The        *)
(* notify_one that follows a push is a step of its own.  The continuation  *)
(* list mutex is a variable, because resume_all_continuations holds it     *)
(* across several calls of executor::schedule.  Every readiness check of   *)
(* the awaiter and of ctask::register_continuation is a step of its own.   *)
(*                                                                         *)
(* Specifications.  Spec: the runtime under the client programs, leaves    *)
(* may throw.  SpecSucceed: the runtime when no body throws, mul_add over  *)
(* all operands.  SpecExec, FairSpecExec: the executor alone, with opaque  *)
(* work items.  SpecStop, FairSpecStop: the executor alone and its         *)
(* destructor.  SpecProvider: the static of get_executor under concurrent  *)
(* calls.  SpecDrop: the runtime when the main thread destroys its task    *)
(* handles, with or without having asked for a result.                     *)
(* SpecLazy: the lazy coroutine_result of example_3a.h, example_3b.h and   *)
(* example_3c.h under calls of value(), copies and drops.  SpecVariants,   *)
(* FairSpecVariants: the task scheduler of example_4a.h, example_4b.h and  *)
(* example_4c.h on the pool of DEFAULT_CONCURRENCY workers.                *)
(***************************************************************************)
EXTENDS Integers, Sequences, FiniteSets, TLC

\* ------------------------------------------------------------------ bounds
\* Worker threads of the pool (the concurrency_level of executor_provider).
NumWorkers == 2
\* Tasks of a client program (one parent or producer plus its children or waiters).
NumTasks == 3
\* Work items submitted in the executor-only specification.
MaxItems == 4
\* Largest operand of mul (operands are 0..MaxOperand).
MaxOperand == 1
\* Calls of get_executor a thread makes in the specification of the provider.
MaxCalls == 2
\* Calls of value() on the lazy result of examples 3a, 3b, 3c.
MaxValueCalls == 4
\* coroutine_result objects that share one state (the original and its copies).
MaxResults == 3

Main == 0
Workers == 1..NumWorkers
Threads == 0..NumWorkers
Tasks == 1..NumTasks
NoThread == -1

\* constexpr size_t DEFAULT_CONCURRENCY
DEFAULT_CONCURRENCY == 4

VARIABLES
    queue,      \* executor::queue_
    th,         \* per thread: where it is in run_thread or in a coroutine frame
    fstate,     \* per task frame: "none", "susp", "run", "done" (destroyed)
    fidx,       \* per task frame: the suspension point stored in the frame
    locals,     \* per task frame: the values received from co_await (v1, v2)
    slot,       \* per task state: result_ / shared_future_
    writes,     \* ghost: calls of set_result / set_exception per task
    conts,      \* per task state: continuation_manager::continuations_
    cmLock,     \* per task state: owner of continuation_manager::mutex_
    crashed,    \* the process was terminated (std::terminate or a fault)
    prog,       \* the client program: who spawns, awaits, throws
    seen,       \* ghost: outcomes returned by get_result, per task
    submitted,  \* ghost: producer of every work item, indexed by item id
    deqLog,     \* ghost: ids of work items in the order they were dequeued
    runs,       \* ghost: number of execute() calls per work item
    stop,       \* per worker: stop was requested on the stop source of its jthread
    qLock,      \* owner of executor::mutex_ between two steps
    late,       \* ghost: ids of work items dequeued by a worker after its stop request
    dropped,    \* the main thread has destroyed the task handles it held
    provider,   \* the function-local static of executor_provider::get_executor
    lazy,       \* the coroutine_result of examples 3a, 3b, 3c: its state and frame
    hist        \* ghost, examples 4a, 4b, 4c: per task the threads that ran the parts
                \* of its body, and the number of times its state was scheduled

vars == <<queue, th, fstate, fidx, locals, slot, writes, conts, cmLock,
          crashed, prog, seen, submitted, deqLog, runs, stop, qLock, late,
          dropped, provider, lazy, hist>>

clientVars == <<dropped, provider, lazy, hist>>
taskVars == <<fstate, fidx, locals, slot, writes, conts, cmLock, crashed, prog, seen,
              clientVars>>
execGhost == <<submitted, deqLog, runs, late>>
poolVars == <<stop, qLock>>

\* ------------------------------------------------------------- thread record
Idle ==
    [pc |-> "idle", kind |-> "none", f |-> 0, k |-> 0, cm |-> 0, i |-> 0,
     ret |-> "none", id |-> 0]

\* ------------------------------------------------------------------ executor
\* An executable in the queue: the shared state of a task ("state"), a resumer
\* of a continuation ("resumer") or an opaque work item ("work").  id and by
\* are ghost fields (used by the executor-only specification).
Item(kind, h, id, by) == [kind |-> kind, h |-> h, id |-> id, by |-> by]

\* executor::schedule, the critical section: queue_.push(std::move(ex))
Push(q, item) == Append(q, item)

\* executor::run_thread: auto next{ std::move(queue_.front()) }
Front(q) == Head(q)

PopKeep(q) == q
\* executor::run_thread: queue_.pop()
Pop(q) == Tail(q)

\* the predicate of cva_.wait: not queue_.empty()
WaitPred(q) == q # <<>>

Waiting == {w \in DOMAIN th \ {Main} : th[w].pc = "waiting"}

NotifyNone(t, after) == th' = [th EXCEPT ![t] = after]
\* executor::schedule: cva_.notify_one(), called by thread t, which goes on as
\* `after`.  One thread blocked in cva_.wait is woken, if there is one.
NotifyOne(t, after) ==
    IF Waiting = {}
    THEN th' = [th EXCEPT ![t] = after]
    ELSE \E w \in Waiting : th' = [th EXCEPT ![t] = after, ![w].pc = "woken"]

\* The thread record of a worker that dequeued `item`.
Dispatch(item) == [Idle EXCEPT !.pc = "exec", !.kind = item.kind, !.f = item.h, !.id = item.id]

UnlockForgotten(w) == w
\* executor::run_thread: lock.unlock() before next->execute(); the value is the
\* owner of mutex_ afterwards.
Unlock(w) == NoThread

\* executor::run_thread, the lock is held and the queue is not empty: dequeue,
\* unlock, and go on to next->execute().
DequeueFront(w) ==
    /\ th' = [th EXCEPT ![w] = Dispatch(Front(queue))]
    /\ queue' = Pop(queue)
    /\ qLock' = Unlock(w)

\* executor::run_thread: break.  The unique_lock releases mutex_ when it goes
\* out of scope.
ExitThread(w) ==
    /\ th' = [th EXCEPT ![w].pc = "exited"]
    /\ qLock' = NoThread
    /\ UNCHANGED queue

\* cva_.wait blocks: it releases mutex_ while the thread sleeps.
BlockInWait(w) ==
    /\ th' = [th EXCEPT ![w].pc = "waiting"]
    /\ qLock' = NoThread
    /\ UNCHANGED queue

\* executor::run_thread, top of the loop: lock, then either dequeue, or (empty
\* queue) call cva_.wait, which returns at once when stop was requested and
\* blocks otherwise.  The stop token is looked at on this branch only.
RunThread(w) ==
    /\ ~crashed
    /\ th[w].pc = "idle"
    /\ qLock = NoThread
    /\ IF WaitPred(queue) THEN DequeueFront(w)
       ELSE IF stop[w] THEN ExitThread(w)
       ELSE BlockInWait(w)
    /\ UNCHANGED stop

WakeUpIgnoresStop(w) ==
    /\ ~crashed
    /\ th[w].pc = "woken"
    /\ qLock = NoThread
    /\ IF WaitPred(queue) THEN DequeueFront(w)
       ELSE IF stop[w] THEN ExitThread(w)
       ELSE BlockInWait(w)
    /\ UNCHANGED stop

\* executor::run_thread, a woken worker re-acquires the lock inside cva_.wait:
\* the wait returns when stop was requested or the predicate holds, and blocks
\* again otherwise.  After the wait, if (stoken.stop_requested()) break, whatever
\* the queue holds.
WakeUp(w) ==
    /\ ~crashed
    /\ th[w].pc = "woken"
    /\ qLock = NoThread
    /\ IF stop[w] THEN ExitThread(w)
       ELSE IF WaitPred(queue) THEN DequeueFront(w)
       ELSE BlockInWait(w)
    /\ UNCHANGED stop

\* A condition variable may wake a waiter without a notification.
SpuriousWake(w) ==
    /\ ~crashed
    /\ th[w].pc = "waiting"
    /\ th' = [th EXCEPT ![w].pc = "woken"]
    /\ UNCHANGED <<queue, poolVars>>

Dequeues(w) == th[w].pc \in {"idle", "woken"} /\ th'[w].pc = "exec"

\* ---------------------------------------------- executor-only specification
\* Clients of the executor: the main thread and the work items themselves
\* submit opaque work items; execute() of a work item returns, possibly after
\* submitting one more item (re-entrant submission).
NextId == Len(submitted) + 1

ClientSchedule ==
    /\ th[Main].pc = "client"
    /\ NextId <= MaxItems
    /\ qLock = NoThread
    /\ queue' = Push(queue, Item("work", 0, NextId, Main))
    /\ submitted' = Append(submitted, Main)
    /\ th' = [th EXCEPT ![Main].pc = "client_notify"]
    /\ UNCHANGED <<deqLog, runs, late>>

ClientNotify ==
    /\ th[Main].pc = "client_notify"
    /\ NotifyOne(Main, [th[Main] EXCEPT !.pc = "client"])
    /\ UNCHANGED <<queue, execGhost>>

ExecuteWorkUnlessStopped(w) ==
    /\ th[w].pc = "exec" /\ th[w].kind = "work"
    /\ runs' = [runs EXCEPT ![th[w].id] = IF stop[w] THEN @ ELSE @ + 1]
    /\ th' = [th EXCEPT ![w] = Idle]
    /\ UNCHANGED <<queue, submitted, deqLog, late>>

\* next->execute() of a work item that returns at once
ExecuteWork(w) ==
    /\ th[w].pc = "exec" /\ th[w].kind = "work"
    /\ runs' = [runs EXCEPT ![th[w].id] = @ + 1]
    /\ th' = [th EXCEPT ![w] = Idle]
    /\ UNCHANGED <<queue, submitted, deqLog, late>>

\* next->execute() of a work item that submits another item before it returns
ExecuteWorkSubmit(w) ==
    /\ th[w].pc = "exec" /\ th[w].kind = "work"
    /\ NextId <= MaxItems
    /\ qLock = NoThread
    /\ runs' = [runs EXCEPT ![th[w].id] = @ + 1]
    /\ queue' = Push(queue, Item("work", 0, NextId, w))
    /\ submitted' = Append(submitted, w)
    /\ th' = [th EXCEPT ![w].pc = "work_notify"]
    /\ UNCHANGED <<deqLog, late>>

WorkNotify(w) ==
    /\ th[w].pc = "work_notify"
    /\ NotifyOne(w, Idle)
    /\ UNCHANGED <<queue, execGhost>>

LogDequeue(w) ==
    /\ deqLog' = IF Dequeues(w) THEN Append(deqLog, th'[w].id) ELSE deqLog
    /\ late' = IF Dequeues(w) /\ stop[w] THEN late \cup {th'[w].id} ELSE late

ExecRunThread(w) == RunThread(w) /\ LogDequeue(w) /\ UNCHANGED <<submitted, runs>>
ExecWakeUp(w) == WakeUp(w) /\ LogDequeue(w) /\ UNCHANGED <<submitted, runs>>
ExecSpuriousWake(w) == SpuriousWake(w) /\ UNCHANGED execGhost

NoProg ==
    [spawns |-> [t \in 0..NumTasks |-> <<>>],
     awaits |-> [t \in Tasks |-> <<>>],
     fails  |-> [t \in Tasks |-> FALSE],
     args   |-> [t \in Tasks |-> <<0, 0>>],
     gets   |-> <<>>]

EmptySlot == [ready |-> FALSE, kind |-> "none", val |-> 0]

\* No coroutine of examples 3a, 3b, 3c has been called: variant is the example,
\* frame the coroutine frame ("none", "susp", "done" once released), handle
\* whether state::handle is non-null, refs the coroutine_result objects that
\* share the state, value state::value, input the number the body co_returns;
\* calls counts the calls of value(), got lists what they returned, resumes
\* counts handle.resume(), released the releases of the frame, and fault
\* records an abnormal end of the process.
NoLazy ==
    [variant |-> "none", frame |-> "none", handle |-> FALSE, refs |-> 0, value |-> 0,
     input |-> 0, calls |-> 0, got |-> <<>>, resumes |-> 0, released |-> 0,
     fault |-> FALSE]

\* No body part has run and nothing has been scheduled.
NoHist == [parts |-> [t \in Tasks |-> <<>>], pushes |-> [t \in Tasks |-> 0]]

InitTasks ==
    /\ fstate = [t \in Tasks |-> "none"]
    /\ fidx = [t \in Tasks |-> 0]
    /\ locals = [t \in Tasks |-> <<>>]
    /\ slot = [t \in Tasks |-> EmptySlot]
    /\ writes = [t \in Tasks |-> 0]
    /\ conts = [t \in Tasks |-> <<>>]
    /\ cmLock = [t \in Tasks |-> NoThread]
    /\ crashed = FALSE
    /\ seen = [t \in Tasks |-> {}]
    /\ dropped = FALSE
    /\ lazy = NoLazy
    /\ hist = NoHist

InitExecGhost ==
    /\ submitted = <<>>
    /\ deqLog = <<>>
    /\ runs = [id \in 1..MaxItems |-> 0]
    /\ late = {}

\* The static of get_executor before the first call, and once its
\* initialisation has completed: guard is the state of the initialisation
\* ("uninit", "running", "ready"), ctors counts the runs of the constructor of
\* executor, workers the threads those runs have created, calls the calls of
\* get_executor every thread has made, and got the executors they returned
\* (named by the construction they came from).
ProviderUninit ==
    [guard |-> "uninit", ctors |-> 0, workers |-> 0,
     calls |-> [t \in Threads |-> 0], got |-> [t \in Threads |-> {}]]

ProviderReady ==
    [ProviderUninit EXCEPT !.guard = "ready", !.ctors = 1, !.workers = DEFAULT_CONCURRENCY]

\* The pool after the constructor of executor: no stop requested, mutex_ free.
InitPool ==
    /\ stop = [w \in Workers |-> FALSE]
    /\ qLock = NoThread
    /\ provider = ProviderReady

InitExec ==
    /\ queue = <<>>
    /\ th = [t \in Threads |-> IF t = Main THEN [Idle EXCEPT !.pc = "client"] ELSE Idle]
    /\ InitTasks
    /\ prog = NoProg
    /\ InitExecGhost
    /\ InitPool

NextExec ==
    \/ ClientSchedule /\ UNCHANGED <<taskVars, poolVars>>
    \/ ClientNotify /\ UNCHANGED <<taskVars, poolVars>>
    \/ \E w \in Workers : ExecRunThread(w) /\ UNCHANGED taskVars
    \/ \E w \in Workers : ExecWakeUp(w) /\ UNCHANGED taskVars
    \/ \E w \in Workers : ExecSpuriousWake(w) /\ UNCHANGED taskVars
    \/ \E w \in Workers : ExecuteWork(w) /\ UNCHANGED <<taskVars, poolVars>>
    \/ \E w \in Workers : ExecuteWorkSubmit(w) /\ UNCHANGED <<taskVars, poolVars>>
    \/ \E w \in Workers : WorkNotify(w) /\ UNCHANGED <<taskVars, poolVars>>

SpecExec == InitExec /\ [][NextExec]_vars

\* Fair scheduling of threads: a thread that can take its next step takes it.
\* No fairness for spurious wake-ups, nor for the client's decision to submit.
FairExec ==
    /\ WF_vars(ClientNotify /\ UNCHANGED <<taskVars, poolVars>>)
    /\ \A w \in Workers :
        /\ WF_vars(ExecRunThread(w) /\ UNCHANGED taskVars)
        /\ WF_vars(ExecWakeUp(w) /\ UNCHANGED taskVars)
        /\ WF_vars(ExecuteWork(w) /\ UNCHANGED <<taskVars, poolVars>>)
        /\ WF_vars(WorkNotify(w) /\ UNCHANGED <<taskVars, poolVars>>)

FairSpecExec == SpecExec /\ FairExec

\* ------------------------------------------- the executor and its destructor
\* executor::~executor, run by the main thread once it submits nothing more:
\* debug_print, then request_stop for every thread of threads_ in order, then
\* join for every thread in order.
ExecutorDtor ==
    /\ th[Main].pc = "client"
    /\ th' = [th EXCEPT ![Main].pc = "request_stop", ![Main].k = 1]
    /\ UNCHANGED <<queue, execGhost, poolVars>>

RequestStopNoWake ==
    /\ th[Main].pc = "request_stop"
    /\ LET w == th[Main].k IN
        /\ stop' = [stop EXCEPT ![w] = TRUE]
        /\ th' = [th EXCEPT ![Main] =
                    IF w < NumWorkers THEN [@ EXCEPT !.k = w + 1]
                    ELSE [@ EXCEPT !.pc = "join", !.k = 1]]
    /\ UNCHANGED <<queue, execGhost, qLock>>

\* std::jthread::request_stop on thread k: the stop state is set, and the stop
\* callback that cva_.wait registered for a thread inside the wait notifies all
\* waiters of the condition variable.
RequestStop ==
    /\ th[Main].pc = "request_stop"
    /\ LET w == th[Main].k
           next == IF w < NumWorkers THEN [th[Main] EXCEPT !.k = w + 1]
                   ELSE [th[Main] EXCEPT !.pc = "join", !.k = 1] IN
        /\ stop' = [stop EXCEPT ![w] = TRUE]
        /\ th' = [t \in Threads |->
                    IF t = Main THEN next
                    ELSE IF th[w].pc \in {"waiting", "woken"} /\ th[t].pc = "waiting"
                         THEN [th[t] EXCEPT !.pc = "woken"]
                         ELSE th[t]]
    /\ UNCHANGED <<queue, execGhost, qLock>>

\* std::jthread::join on thread k returns when run_thread has returned.
Join ==
    /\ th[Main].pc = "join"
    /\ th[th[Main].k].pc = "exited"
    /\ th' = [th EXCEPT ![Main] =
                IF th[Main].k < NumWorkers THEN [@ EXCEPT !.k = @ + 1]
                ELSE [@ EXCEPT !.pc = "destroyed", !.k = 0]]
    /\ UNCHANGED <<queue, execGhost, poolVars>>

NextStop ==
    \/ ClientSchedule /\ UNCHANGED <<taskVars, poolVars>>
    \/ ClientNotify /\ UNCHANGED <<taskVars, poolVars>>
    \/ \E w \in Workers : ExecRunThread(w) /\ UNCHANGED taskVars
    \/ \E w \in Workers : ExecWakeUp(w) /\ UNCHANGED taskVars
    \/ \E w \in Workers : ExecSpuriousWake(w) /\ UNCHANGED taskVars
    \/ \E w \in Workers : ExecuteWork(w) /\ UNCHANGED <<taskVars, poolVars>>
    \/ \E w \in Workers : ExecuteWorkSubmit(w) /\ UNCHANGED <<taskVars, poolVars>>
    \/ \E w \in Workers : WorkNotify(w) /\ UNCHANGED <<taskVars, poolVars>>
    \/ ExecutorDtor /\ UNCHANGED taskVars
    \/ RequestStop /\ UNCHANGED taskVars
    \/ Join /\ UNCHANGED taskVars

SpecStop == InitExec /\ [][NextStop]_vars

\* Fair scheduling during shutdown: every thread that can take its next step
\* takes it, and execute() of a running item returns.  No fairness for spurious
\* wake-ups, for the client's decision to submit, nor for the moment the
\* destructor starts.
FairStop ==
    /\ WF_vars(ClientNotify /\ UNCHANGED <<taskVars, poolVars>>)
    /\ WF_vars(RequestStop /\ UNCHANGED taskVars)
    /\ WF_vars(Join /\ UNCHANGED taskVars)
    /\ \A w \in Workers :
        /\ WF_vars(ExecRunThread(w) /\ UNCHANGED taskVars)
        /\ WF_vars(ExecWakeUp(w) /\ UNCHANGED taskVars)
        /\ WF_vars(ExecuteWork(w) /\ UNCHANGED <<taskVars, poolVars>>)
        /\ WF_vars(WorkNotify(w) /\ UNCHANGED <<taskVars, poolVars>>)

FairSpecStop == SpecStop /\ FairStop

\* ------------------------------------------------------------ client programs
\* A client program says, for the main thread (0) and for every task, which
\* tasks it creates at the start of its body (spawns), which tasks it awaits in
\* order (awaits), whether its body ends by throwing (fails), the operands of a
\* leaf (args: mul(a, b)), and the tasks main calls get_result on (gets).
Iota(a, b) == [i \in 1..(b - a + 1) |-> a + i - 1]

Leaf(p, t) == p.awaits[t] = <<>>

\* mul_add: main creates task 1, which creates the tasks 2..NumTasks (mul) and
\* awaits them in order; main calls get_result on task 1 through two handles.
MulAddProg ==
    [spawns |-> [t \in 0..NumTasks |->
                    IF t = 0 THEN <<1>>
                    ELSE IF t = 1 THEN Iota(2, NumTasks) ELSE <<>>],
     awaits |-> [t \in Tasks |-> IF t = 1 THEN Iota(2, NumTasks) ELSE <<>>],
     fails  |-> [t \in Tasks |-> FALSE],
     args   |-> [t \in Tasks |-> <<t, 2>>],
     gets   |-> <<1, 1>>]

\* Several consumers of one producer: main creates the producer NumTasks (mul)
\* and passes a handle to each of the tasks 1..NumTasks-1, which await it and
\* return its value; main calls get_result on every consumer.
FanInProg ==
    [spawns |-> [t \in 0..NumTasks |->
                    IF t = 0 THEN <<NumTasks>> \o Iota(1, NumTasks - 1) ELSE <<>>],
     awaits |-> [t \in Tasks |-> IF t < NumTasks THEN <<NumTasks>> ELSE <<>>],
     fails  |-> [t \in Tasks |-> FALSE],
     args   |-> [t \in Tasks |-> <<t, 2>>],
     gets   |-> Iota(1, NumTasks - 1)]

\* Every choice of the leaves whose body throws.
WithFails(p, F) == [p EXCEPT !.fails = [t \in Tasks |-> t \in F]]

Programs ==
    UNION {{WithFails(p, F) : F \in SUBSET {t \in Tasks : Leaf(p, t)}} :
            p \in {MulAddProg, FanInProg}}

\* ------------------------------------------------------------- shared state
ReadyAlways(t) == TRUE
\* ctask::ready: shared_future_.wait_for(0) == future_status::ready
Ready(t) == slot[t].ready

Outcome(s) == [kind |-> s.kind, val |-> s.val]

\* state::set_result / state::set_exception on a promise that is not satisfied
\* yet: result_.set_value / result_.set_exception.  (On a satisfied promise they
\* throw std::future_error and leave the stored outcome alone: see ReturnValue.)
PromiseSet(s, kind, val) ==
    IF s.ready THEN s ELSE [ready |-> TRUE, kind |-> kind, val |-> val]

FutureGetConsumes(s) == EmptySlot
\* state::get_result returns a copy of shared_future_, and shared_future::get
\* leaves the shared state as it is, so that it can be read again.
FutureGet(s) == s

RECURSIVE SumSeq(_)
SumSeq(q) == IF q = <<>> THEN 0 ELSE Head(q) + SumSeq(Tail(q))

\* The value a body co_returns: a * b for mul, v1 + v2 (+ ...) for mul_add.
BodyValue(f) ==
    IF Leaf(prog, f) THEN prog.args[f][1] * prog.args[f][2] ELSE SumSeq(locals[f])

\* --------------------------------------------------- positions in a body
\* Where a thread goes on in the body of f (main: f = 0) once it has created
\* the first k - 1 tasks of spawns[f].
SpawnPos(r, f, k) ==
    IF k <= Len(prog.spawns[f]) THEN [r EXCEPT !.pc = "spawn", !.f = f, !.k = k]
    ELSE IF f = 0
         THEN [r EXCEPT !.pc = IF prog.gets = <<>> THEN "done" ELSE "get", !.f = f, !.k = 1]
         ELSE [r EXCEPT !.f = f, !.k = 1,
                        !.pc = IF prog.awaits[f] # <<>> THEN "await_ready"
                               ELSE IF prog.fails[f] THEN "unhandled" ELSE "return_value"]

\* Where a thread goes on in the body of f before its k-th co_await.
AwaitPos(r, f, k) ==
    [r EXCEPT !.k = k,
              !.pc = IF k <= Len(prog.awaits[f]) THEN "await_ready"
                     ELSE IF prog.fails[f] THEN "unhandled" ELSE "return_value"]

Awaited(t) == prog.awaits[th[t].f][th[t].k]

\* A thread leaves the frame it was running: a worker returns from execute()
\* to the top of run_thread.
Leave(t) == Idle

Crash ==
    /\ crashed' = TRUE
    /\ UNCHANGED <<queue, th, fstate, fidx, locals, slot, conts, cmLock, prog, seen>>

\* ------------------------------------------------------- creating a task
SpawnInline(t) ==
    /\ ~crashed
    /\ th[t].pc = "spawn"
    /\ LET c == prog.spawns[th[t].f][th[t].k] IN
        /\ fstate' = [fstate EXCEPT ![c] = "run"]
        /\ fidx' = [fidx EXCEPT ![c] = 0]
        /\ locals' = [locals EXCEPT ![c] = [i \in 1..Len(prog.awaits[c]) |-> 0]]
        /\ th' = [th EXCEPT ![t] = SpawnPos(th[t], c, 1)]
    /\ UNCHANGED <<queue, slot, writes, conts, cmLock, crashed, prog, seen>>

\* Calling a task-producing function: get_return_object allocates the shared
\* state, initial_suspend suspends the new frame, and
\* ctask_scheduler::await_suspend schedules the state on the executor (the push;
\* the notify_one is SpawnNotify).
Spawn(t) ==
    /\ ~crashed
    /\ th[t].pc = "spawn"
    /\ LET c == prog.spawns[th[t].f][th[t].k] IN
        /\ fstate' = [fstate EXCEPT ![c] = "susp"]
        /\ fidx' = [fidx EXCEPT ![c] = 0]
        /\ locals' = [locals EXCEPT ![c] = [i \in 1..Len(prog.awaits[c]) |-> 0]]
        /\ qLock = NoThread
        /\ queue' = Push(queue, Item("state", c, 0, 0))
        /\ th' = [th EXCEPT ![t].pc = "spawn_notify"]
    /\ UNCHANGED <<slot, writes, conts, cmLock, crashed, prog, seen>>

SpawnNotify(t) ==
    /\ ~crashed
    /\ th[t].pc = "spawn_notify"
    /\ NotifyOne(t, SpawnPos(th[t], th[t].f, th[t].k + 1))
    /\ UNCHANGED <<queue, taskVars>>

\* ------------------------------------------------------ resuming a frame
\* handle_.resume() jumps to the suspension point stored in the frame.
Enter(w, f) ==
    /\ th' = [th EXCEPT ![w] =
                IF fidx[f] = 0 THEN SpawnPos(th[w], f, 1)
                ELSE [th[w] EXCEPT !.pc = "await_resume", !.k = fidx[f]]]
    /\ fstate' = [fstate EXCEPT ![f] = IF @ = "done" THEN "done" ELSE "run"]
    /\ UNCHANGED <<queue, fidx, locals, slot, writes, conts, cmLock, crashed, prog, seen>>

\* state::execute of a dispatched task state: handle_.resume() of a frame that
\* waits at its initial suspension point.
ExecuteState(w) ==
    /\ ~crashed
    /\ th[w].pc = "exec" /\ th[w].kind = "state"
    /\ Enter(w, th[w].f)

\* resumer::execute of a dispatched resumer: handle_.resume().  Resuming a
\* frame that is not suspended is undefined behaviour: on a frame that another
\* thread is running, the second thread enters the frame at the stored
\* suspension point too, or the process faults; on a destroyed frame the call
\* reads freed memory, and it enters the old code, faults, or returns.
ExecuteResumer(w) ==
    /\ ~crashed
    /\ th[w].pc = "exec" /\ th[w].kind = "resumer"
    /\ LET f == th[w].f IN
        \/ Enter(w, f)
        \/ /\ fstate[f] # "susp"
           /\ Crash /\ UNCHANGED writes
        \/ /\ fstate[f] = "done"
           /\ th' = [th EXCEPT ![w] = Leave(w)]
           /\ UNCHANGED <<queue, taskVars>>

\* ------------------------------------------------------------ co_await task
\* ctask_awaiter::await_ready.  When it returns false the frame stores the
\* suspension point and counts as suspended before await_suspend is called.
AwaitReady(t) ==
    /\ ~crashed
    /\ th[t].pc = "await_ready"
    /\ LET f == th[t].f IN
        IF Ready(Awaited(t))
        THEN /\ th' = [th EXCEPT ![t].pc = "await_resume"]
             /\ UNCHANGED <<fstate, fidx>>
        ELSE /\ th' = [th EXCEPT ![t].pc = "await_suspend"]
             /\ fstate' = [fstate EXCEPT ![f] = IF @ = "done" THEN "done" ELSE "susp"]
             /\ fidx' = [fidx EXCEPT ![f] = th[t].k]
    /\ UNCHANGED <<queue, locals, slot, writes, conts, cmLock, crashed, prog, seen>>

AwaitSuspendAlwaysRegisters(t) ==
    /\ ~crashed
    /\ th[t].pc = "await_suspend"
    /\ th' = [th EXCEPT ![t].pc = "register"]
    /\ UNCHANGED <<queue, fstate, fidx, locals, slot, writes, conts, cmLock, crashed, prog, seen>>

\* ctask_awaiter::await_suspend, the readiness check: returning false resumes
\* the frame on this thread.
AwaitSuspend(t) ==
    /\ ~crashed
    /\ th[t].pc = "await_suspend"
    /\ LET f == th[t].f IN
        IF Ready(Awaited(t))
        THEN /\ th' = [th EXCEPT ![t].pc = "await_resume"]
             /\ fstate' = [fstate EXCEPT ![f] = IF @ = "done" THEN "done" ELSE "run"]
        ELSE /\ th' = [th EXCEPT ![t].pc = "register"]
             /\ UNCHANGED fstate
    /\ UNCHANGED <<queue, fidx, locals, slot, writes, conts, cmLock, crashed, prog, seen>>

\* A continuation: handle_ (h); executor_ is the one executor of the process.
\* early, rechk and subs are ghost fields: whether the task was not ready yet
\* when the continuation was appended, what the readiness check after the append
\* found ("pending" before it), and how many resumers were scheduled for it.
Continuation(h, early) == [h |-> h, early |-> early, rechk |-> "pending", subs |-> 0]

\* continuation_manager::register_continuation: push_back under the lock.
RegisterContinuation(cs, c) == Append(cs, c)

\* register_continuation without the lock_guard: the push_back does not wait
\* for a resume_all_continuations that holds the mutex.
RegisterNoLock(t) ==
    /\ ~crashed
    /\ th[t].pc = "register"
    /\ conts' = [conts EXCEPT ![Awaited(t)] =
                    RegisterContinuation(@, Continuation(th[t].f, ~Ready(Awaited(t))))]
    /\ th' = [th EXCEPT ![t].pc = "reg_ready", ![t].i = Len(conts[Awaited(t)]) + 1]
    /\ UNCHANGED <<queue, fstate, fidx, locals, slot, writes, cmLock, crashed, prog, seen>>

\* ctask::register_continuation, first statement.
Register(t) ==
    /\ ~crashed
    /\ th[t].pc = "register"
    /\ LET b == Awaited(t) IN
        /\ cmLock[b] = NoThread
        /\ conts' = [conts EXCEPT ![b] =
                        RegisterContinuation(@, Continuation(th[t].f, ~Ready(b)))]
    /\ th' = [th EXCEPT ![t].pc = "reg_ready", ![t].i = Len(conts[Awaited(t)]) + 1]
    /\ UNCHANGED <<queue, fstate, fidx, locals, slot, writes, cmLock, crashed, prog, seen>>

\* ctask::register_continuation: if (ready())
Recheck(b) == Ready(b)

\* ctask::register_continuation, the readiness check after the append: when
\* ready it calls resume_all_continuations, otherwise await_suspend returns
\* true and the thread leaves the frame.
RegisterReady(t) ==
    /\ ~crashed
    /\ th[t].pc = "reg_ready"
    /\ th' = [th EXCEPT ![t] =
                IF Recheck(Awaited(t))
                THEN [th[t] EXCEPT !.pc = "ra_lock", !.cm = Awaited(t), !.ret = "leave"]
                ELSE Leave(t)]
    /\ conts' = [conts EXCEPT ![Awaited(t)][th[t].i].rechk =
                    IF Recheck(Awaited(t)) THEN "ready" ELSE "notready"]
    /\ UNCHANGED <<queue, fstate, fidx, locals, slot, writes, cmLock, crashed, prog, seen>>

\* continuation_manager::resume_all_continuations: std::lock_guard lock{ mutex_ }
ResumeAllLock(t) ==
    /\ ~crashed
    /\ th[t].pc = "ra_lock"
    /\ cmLock[th[t].cm] = NoThread
    /\ cmLock' = [cmLock EXCEPT ![th[t].cm] = t]
    /\ th' = [th EXCEPT ![t].pc = "ra_push", ![t].i = 1]
    /\ UNCHANGED <<queue, fstate, fidx, locals, slot, writes, conts, crashed, prog, seen>>

\* What a thread does when resume_all_continuations returns.
AfterResumeAll(r) ==
    IF r.ret = "final" THEN [r EXCEPT !.pc = "final", !.cm = 0, !.i = 0, !.ret = "none"]
    ELSE Idle

ResumeAllInline(t) ==
    /\ ~crashed
    /\ th[t].pc = "ra_push"
    /\ LET b == th[t].cm
           i == th[t].i IN
        IF i <= Len(conts[b])
        THEN /\ th' = [th EXCEPT ![t].pc = "await_resume", ![t].f = conts[b][i].h,
                                 ![t].k = fidx[conts[b][i].h]]
             /\ conts' = [conts EXCEPT ![b][i].subs = @ + 1]
             /\ UNCHANGED <<queue, cmLock>>
        ELSE /\ cmLock' = [cmLock EXCEPT ![b] = NoThread]
             /\ th' = [th EXCEPT ![t] = AfterResumeAll(th[t])]
             /\ UNCHANGED <<queue, conts>>
    /\ UNCHANGED <<fstate, fidx, locals, slot, writes, crashed, prog, seen>>

\* continuation_manager::resume_all_continuations, one iteration of for_each:
\* resume_continuation schedules a new resumer for the continuation (the push);
\* after the last one the lock is released.
ResumeAllPush(t) ==
    /\ ~crashed
    /\ th[t].pc = "ra_push"
    /\ LET b == th[t].cm
           i == th[t].i IN
        IF i <= Len(conts[b])
        THEN /\ qLock = NoThread
             /\ queue' = Push(queue, Item("resumer", conts[b][i].h, 0, 0))
             /\ conts' = [conts EXCEPT ![b][i].subs = @ + 1]
             /\ th' = [th EXCEPT ![t].pc = "ra_notify"]
             /\ UNCHANGED cmLock
        ELSE /\ cmLock' = [cmLock EXCEPT ![b] = NoThread]
             /\ th' = [th EXCEPT ![t] = AfterResumeAll(th[t])]
             /\ UNCHANGED <<queue, conts>>
    /\ UNCHANGED <<fstate, fidx, locals, slot, writes, crashed, prog, seen>>

ResumeAllNotify(t) ==
    /\ ~crashed
    /\ th[t].pc = "ra_notify"
    /\ NotifyOne(t, [th[t] EXCEPT !.pc = "ra_push", !.i = @ + 1])
    /\ UNCHANGED <<queue, taskVars>>

\* ctask_awaiter::await_resume: task_.get_result() blocks until the awaited
\* task is ready, then returns its value or rethrows its exception into the
\* awaiting body, which has no handler: unhandled_exception is next.
AwaitResume(t) ==
    /\ ~crashed
    /\ th[t].pc = "await_resume"
    /\ LET f == th[t].f
           b == Awaited(t) IN
        /\ Ready(b)
        /\ seen' = [seen EXCEPT ![b] = @ \cup {Outcome(slot[b])}]
        /\ slot' = [slot EXCEPT ![b] = FutureGet(@)]
        /\ IF slot[b].kind = "error"
           THEN /\ th' = [th EXCEPT ![t].pc = "unhandled"]
                /\ UNCHANGED locals
           ELSE /\ th' = [th EXCEPT ![t] = AwaitPos(th[t], f, th[t].k + 1)]
                /\ locals' = [locals EXCEPT ![f][th[t].k] = slot[b].val]
    /\ UNCHANGED <<queue, fstate, fidx, writes, conts, cmLock, crashed, prog>>

\* ------------------------------------------------- ownership of a task state
Range(q) == {q[i] : i \in 1..Len(q)}

\* The std::shared_ptr<state> owners of task c: the ctask objects of the main
\* thread (until it destroys them), the ctask objects stored in a frame that
\* exists (p1 and p2 of mul_add, the awaiter's task_), the queue item and the
\* worker that dequeued it (until execute() returns), and the pointer that
\* return_value obtained from shared_state_.lock() for the time of its body.
HeldByMain(c) == ~dropped /\ c \in Range(prog.spawns[0])

HeldByFrame(c) ==
    \E f \in Tasks : /\ fstate[f] \in {"susp", "run"}
                     /\ c \in Range(prog.spawns[f]) \cup Range(prog.awaits[f])

HeldByExecutor(c) ==
    \/ \E i \in 1..Len(queue) : queue[i].kind = "state" /\ queue[i].h = c
    \/ \E w \in Workers : th[w].kind = "state" /\ th[w].f = c

HeldByPromise(c) == \E t \in Workers : th[t].ret = "final" /\ th[t].cm = c

\* The state of c exists: shared_state_.lock() of its promise succeeds.
StateAlive(c) ==
    /\ fstate[c] # "none"
    /\ HeldByMain(c) \/ HeldByFrame(c) \/ HeldByExecutor(c) \/ HeldByPromise(c)

\* A return_value that reaches the state through a plain pointer instead of
\* shared_state_.lock(): it writes the result and resumes the continuations
\* whether or not the state is still owned by anybody.
ReturnValueNoLock(t) ==
    /\ ~crashed
    /\ th[t].pc = "return_value"
    /\ LET f == th[t].f IN
        /\ writes' = [writes EXCEPT ![f] = @ + 1]
        /\ slot' = [slot EXCEPT ![f] = PromiseSet(@, "value", BodyValue(f))]
        /\ IF slot[f].ready
           THEN /\ crashed' = TRUE
                /\ UNCHANGED th
           ELSE /\ th' = [th EXCEPT ![t].pc = "ra_lock", ![t].cm = f, ![t].ret = "final"]
                /\ UNCHANGED crashed
    /\ UNCHANGED <<queue, fstate, fidx, locals, conts, cmLock, prog, seen>>

\* ------------------------------------------------------------ completion
\* coroutine_promise::return_value: set_result, then resume_all_continuations,
\* both only if shared_state_.lock() finds the state (otherwise nothing).
\* On a promise that is already satisfied set_value throws std::future_error;
\* the exception reaches unhandled_exception, whose set_exception throws again,
\* out of the noexcept execute(): std::terminate.
ReturnValue(t) ==
    /\ ~crashed
    /\ th[t].pc = "return_value"
    /\ LET f == th[t].f IN
        IF StateAlive(f)
        THEN /\ writes' = [writes EXCEPT ![f] = @ + 1]
             /\ slot' = [slot EXCEPT ![f] = PromiseSet(@, "value", BodyValue(f))]
             /\ IF slot[f].ready
                THEN /\ crashed' = TRUE
                     /\ UNCHANGED th
                ELSE /\ th' = [th EXCEPT ![t].pc = "ra_lock", ![t].cm = f, ![t].ret = "final"]
                     /\ UNCHANGED crashed
        ELSE /\ th' = [th EXCEPT ![t].pc = "final"]
             /\ UNCHANGED <<writes, slot, crashed>>
    /\ UNCHANGED <<queue, fstate, fidx, locals, conts, cmLock, prog, seen>>

\* coroutine_promise::unhandled_exception: set_exception, and nothing else
\* (nothing at all if shared_state_.lock() does not find the state).
\* On a promise that is already satisfied set_exception throws out of the
\* noexcept execute(): std::terminate.
UnhandledException(t) ==
    /\ ~crashed
    /\ th[t].pc = "unhandled"
    /\ LET f == th[t].f IN
        IF StateAlive(f)
        THEN /\ writes' = [writes EXCEPT ![f] = @ + 1]
             /\ slot' = [slot EXCEPT ![f] = PromiseSet(@, "error", 0)]
             /\ IF slot[f].ready
                THEN /\ crashed' = TRUE
                     /\ UNCHANGED th
                ELSE /\ th' = [th EXCEPT ![t].pc = "final"]
                     /\ UNCHANGED crashed
        ELSE /\ th' = [th EXCEPT ![t].pc = "final"]
             /\ UNCHANGED <<writes, slot, crashed>>
    /\ UNCHANGED <<queue, fstate, fidx, locals, conts, cmLock, prog, seen>>

\* coroutine_promise::final_suspend returns suspend_never: the frame is
\* destroyed and the thread returns from resume() to run_thread.
FinalSuspend(t) ==
    /\ ~crashed
    /\ th[t].pc = "final"
    /\ fstate' = [fstate EXCEPT ![th[t].f] = "done"]
    /\ th' = [th EXCEPT ![t] = Leave(t)]
    /\ UNCHANGED <<queue, fidx, locals, slot, writes, conts, cmLock, crashed, prog, seen>>

\* ctask::wait called by the main thread before it asks for the result of the
\* same task: shared_future_.wait() blocks until the task is ready and returns
\* nothing (ret = "waited" says that the call has returned).
WaitResult ==
    /\ ~crashed
    /\ th[Main].pc = "get" /\ th[Main].ret = "none"
    /\ Ready(prog.gets[th[Main].k])
    /\ th' = [th EXCEPT ![Main].ret = "waited"]
    /\ UNCHANGED <<queue, taskVars>>

\* ctask::get_result called by the main thread: blocks until the task is ready.
GetResult ==
    /\ ~crashed
    /\ th[Main].pc = "get"
    /\ LET b == prog.gets[th[Main].k] IN
        /\ Ready(b)
        /\ seen' = [seen EXCEPT ![b] = @ \cup {Outcome(slot[b])}]
        /\ slot' = [slot EXCEPT ![b] = FutureGet(@)]
    /\ th' = [th EXCEPT ![Main] =
                IF th[Main].k < Len(prog.gets) THEN [@ EXCEPT !.k = @ + 1, !.ret = "none"]
                ELSE [@ EXCEPT !.pc = "done", !.k = 0, !.ret = "none"]]
    /\ UNCHANGED <<queue, fstate, fidx, locals, writes, conts, cmLock, crashed, prog>>

\* -------------------------------------------------------------- the runtime
Init ==
    /\ queue = <<>>
    /\ InitTasks
    /\ prog \in Programs
    /\ th = [t \in Threads |-> IF t = Main THEN SpawnPos(Idle, 0, 1) ELSE Idle]
    /\ InitExecGhost
    /\ InitPool

Next ==
    \/ \E w \in Workers : RunThread(w) /\ UNCHANGED <<taskVars, execGhost>>
    \/ \E w \in Workers : WakeUp(w) /\ UNCHANGED <<taskVars, execGhost>>
    \/ \E w \in Workers : SpuriousWake(w) /\ UNCHANGED <<taskVars, execGhost>>
    \/ \E w \in Workers : ExecuteState(w) /\ UNCHANGED <<execGhost, poolVars, clientVars>>
    \/ \E w \in Workers : ExecuteResumer(w) /\ UNCHANGED <<execGhost, poolVars, clientVars>>
    \/ \E t \in Threads : Spawn(t) /\ UNCHANGED <<execGhost, poolVars, clientVars>>
    \/ \E t \in Threads : SpawnNotify(t) /\ UNCHANGED <<execGhost, poolVars, clientVars>>
    \/ \E t \in Workers : AwaitReady(t) /\ UNCHANGED <<execGhost, poolVars, clientVars>>
    \/ \E t \in Workers : AwaitSuspend(t) /\ UNCHANGED <<execGhost, poolVars, clientVars>>
    \/ \E t \in Workers : Register(t) /\ UNCHANGED <<execGhost, poolVars, clientVars>>
    \/ \E t \in Workers : RegisterReady(t) /\ UNCHANGED <<execGhost, poolVars, clientVars>>
    \/ \E t \in Workers : ResumeAllLock(t) /\ UNCHANGED <<execGhost, poolVars, clientVars>>
    \/ \E t \in Workers : ResumeAllPush(t) /\ UNCHANGED <<execGhost, poolVars, clientVars>>
    \/ \E t \in Workers : ResumeAllNotify(t) /\ UNCHANGED <<execGhost, poolVars, clientVars>>
    \/ \E t \in Workers : AwaitResume(t) /\ UNCHANGED <<execGhost, poolVars, clientVars>>
    \/ \E t \in Workers : ReturnValue(t) /\ UNCHANGED <<execGhost, poolVars, clientVars>>
    \/ \E t \in Workers : UnhandledException(t) /\ UNCHANGED <<execGhost, poolVars, clientVars>>
    \/ \E t \in Workers : FinalSuspend(t) /\ UNCHANGED <<execGhost, poolVars, clientVars>>
    \/ WaitResult /\ UNCHANGED <<execGhost, poolVars, clientVars>>
    \/ GetResult /\ UNCHANGED <<execGhost, poolVars, clientVars>>

Spec == Init /\ [][Next]_vars

\* ------------------------------------------- the runtime, bodies that succeed
\* mul_add over every choice of the operands of its mul sub-tasks, and the
\* fan-in program: no body throws, so unhandled_exception is never reached.
Operands == 0..MaxOperand

WithArgs(p, A) == [p EXCEPT !.args = A]

SucceedingPrograms ==
    {WithArgs(MulAddProg, A) :
        A \in {B \in [Tasks -> Operands \X Operands] :
                    \A t \in Tasks : ~Leaf(MulAddProg, t) => B[t] = <<0, 0>>}}
    \cup {FanInProg}

InitSucceed ==
    /\ queue = <<>>
    /\ InitTasks
    /\ prog \in SucceedingPrograms
    /\ th = [t \in Threads |-> IF t = Main THEN SpawnPos(Idle, 0, 1) ELSE Idle]
    /\ InitExecGhost
    /\ InitPool

NextSucceed ==
    \/ \E w \in Workers : RunThread(w) /\ UNCHANGED <<taskVars, execGhost>>
    \/ \E w \in Workers : WakeUp(w) /\ UNCHANGED <<taskVars, execGhost>>
    \/ \E w \in Workers : SpuriousWake(w) /\ UNCHANGED <<taskVars, execGhost>>
    \/ \E w \in Workers : ExecuteState(w) /\ UNCHANGED <<execGhost, poolVars, clientVars>>
    \/ \E w \in Workers : ExecuteResumer(w) /\ UNCHANGED <<execGhost, poolVars, clientVars>>
    \/ \E t \in Threads : Spawn(t) /\ UNCHANGED <<execGhost, poolVars, clientVars>>
    \/ \E t \in Threads : SpawnNotify(t) /\ UNCHANGED <<execGhost, poolVars, clientVars>>
    \/ \E t \in Workers : AwaitReady(t) /\ UNCHANGED <<execGhost, poolVars, clientVars>>
    \/ \E t \in Workers : AwaitSuspend(t) /\ UNCHANGED <<execGhost, poolVars, clientVars>>
    \/ \E t \in Workers : Register(t) /\ UNCHANGED <<execGhost, poolVars, clientVars>>
    \/ \E t \in Workers : RegisterReady(t) /\ UNCHANGED <<execGhost, poolVars, clientVars>>
    \/ \E t \in Workers : ResumeAllLock(t) /\ UNCHANGED <<execGhost, poolVars, clientVars>>
    \/ \E t \in Workers : ResumeAllPush(t) /\ UNCHANGED <<execGhost, poolVars, clientVars>>
    \/ \E t \in Workers : ResumeAllNotify(t) /\ UNCHANGED <<execGhost, poolVars, clientVars>>
    \/ \E t \in Workers : AwaitResume(t) /\ UNCHANGED <<execGhost, poolVars, clientVars>>
    \/ \E t \in Workers : ReturnValue(t) /\ UNCHANGED <<execGhost, poolVars, clientVars>>
    \/ \E t \in Workers : FinalSuspend(t) /\ UNCHANGED <<execGhost, poolVars, clientVars>>
    \/ WaitResult /\ UNCHANGED <<execGhost, poolVars, clientVars>>
    \/ GetResult /\ UNCHANGED <<execGhost, poolVars, clientVars>>

SpecSucceed == InitSucceed /\ [][NextSucceed]_vars

\* ------------------------------------------------------------------ claims
Entries == {<<b, i>> \in Tasks \X (1..(2 * NumTasks * NumWorkers)) : i <= Len(conts[b])}

Entry(e) == conts[e[1]][e[2]]

\* Nothing is left to run: the queue is empty, every worker sleeps on it, and
\* the main thread has returned or is blocked in get_result for good.
Quiescent ==
    /\ ~crashed
    /\ queue = <<>>
    /\ \A w \in Workers : th[w].pc = "waiting"
    /\ \/ th[Main].pc = "done"
       \/ th[Main].pc = "get" /\ ~Ready(prog.gets[th[Main].k])

\* C1: a continuation whose registration raced with the completion of the
\* awaited task (the readiness check after the append found the task ready) has
\* its handle submitted to the executor exactly once: never twice, and once
\* when nothing is left to run.
C1_RacedSubmittedOnce ==
    \A e \in Entries :
        Entry(e).rechk = "ready" =>
            /\ Entry(e).subs <= 1
            /\ Quiescent => Entry(e).subs = 1

\* C2: a continuation appended before the result write of the awaited task is
\* resumed exactly once, and its resumer is enqueued only after the write.
C2_EarlyResumedOnceAfterWrite ==
    \A e \in Entries :
        Entry(e).early =>
            /\ Entry(e).subs <= 1
            /\ Entry(e).subs >= 1 => Ready(e[1])
            /\ Quiescent => Entry(e).subs = 1

\* C3: register_continuation on a task that is already complete never appends
\* the continuation to the list of the task.
C3_NoAppendWhenComplete ==
    \A e \in Entries : Entry(e).early

\* C4: with several waiters of one producer, the resume_all triggered by the
\* registration of a later waiter never submits again the handle of another
\* waiter that was submitted already.
C4_NoResubmissionByLaterWaiter ==
    \A t \in Workers :
        (th[t].pc = "ra_push" /\ th[t].ret = "leave" /\ th[t].i <= Len(conts[th[t].cm])) =>
            LET c == conts[th[t].cm][th[t].i] IN
            c.h # th[t].f => c.subs = 0

\* C5: when the body of B fails after A suspended and registered on B, A is
\* resumed: once nothing is left to run, a resumer was scheduled for A.
C5_FailureResumesWaiter ==
    Quiescent =>
        \A e \in Entries :
            (slot[e[1]].kind = "error" /\ Entry(e).rechk = "notready") =>
                Entry(e).subs >= 1

\* C6: the result slot of a task is written at most once; no execution attempts
\* a second set_result / set_exception on it.
C6_WrittenAtMostOnce ==
    \A t \in Tasks : writes[t] <= 1

\* C7: every resumer or task state that a worker executes targets a frame that
\* is suspended at that moment (not running, not destroyed).
C7_ResumeOnlySuspended ==
    [][\A w \in Workers :
        (th[w].pc = "exec" /\ th[w].kind \in {"state", "resumer"} /\ th'[w].pc # "exec")
            => fstate[th[w].f] = "susp"]_vars

\* C8 (SpecExec): no work item is executed more than once, none is dequeued
\* twice, and the items submitted by one thread are dequeued in the order in
\* which that thread submitted them (ids number the pushes in queue order).
Position(id) == CHOOSE i \in 1..Len(deqLog) : deqLog[i] = id

Dequeued(id) == \E i \in 1..Len(deqLog) : deqLog[i] = id

C8_OnceAndFifoPerProducer ==
    /\ \A id \in 1..MaxItems : runs[id] <= 1
    /\ \A i, j \in 1..Len(deqLog) : i # j => deqLog[i] # deqLog[j]
    /\ \A a, b \in 1..Len(submitted) :
        (a < b /\ submitted[a] = submitted[b] /\ Dequeued(b)) =>
            Dequeued(a) /\ Position(a) < Position(b)

\* Every item was submitted and executed, by main and by work items running on
\* the workers, and two workers were running items at the same time before.
C8_Witness ==
    /\ Len(submitted) = MaxItems
    /\ \A id \in 1..MaxItems : runs[id] = 1
    /\ \E a, b \in 1..MaxItems : a < b /\ submitted[a] = Main /\ submitted[b] = Main
    /\ \E a \in 1..MaxItems : submitted[a] # Main

\* C9 (FairSpecExec): under fair scheduling every submitted item is eventually
\* dequeued and executed; no wake-up is missed.
C9_EventuallyExecuted ==
    \A id \in 1..MaxItems : (Len(submitted) >= id) ~> (runs[id] >= 1)

\* A worker that slept on the empty queue was woken for an item that is in the
\* queue, while the submitter has returned from notify_one.
C9_Witness ==
    /\ \E w \in Workers : th[w].pc = "woken"
    /\ queue # <<>>
    /\ th[Main].pc = "client"
    /\ \A w \in Workers : th[w].pc \in {"woken", "waiting"}

\* C10: every get_result on one task returns the same outcome, the one stored
\* in its slot; a ready task stays ready and keeps its outcome.
C10_SameOutcomeForever ==
    /\ [](\A t \in Tasks : seen[t] # {} => (Ready(t) /\ seen[t] = {Outcome(slot[t])}))
    /\ [][\A t \in Tasks : Ready(t) => slot'[t] = slot[t]]_vars

\* Main has called get_result twice on one task, through two handles, and the
\* outcome of another task was read by its awaiter on a worker thread.
C10_Witness ==
    /\ th[Main].pc = "done"
    /\ Len(prog.gets) >= 2 /\ prog.gets[1] = prog.gets[2]
    /\ seen[prog.gets[1]] # {}
    /\ \E t \in Tasks : t # prog.gets[1] /\ seen[t] # {}

\* C11: get_result() and wait() return only after the result slot of the task
\* has been written (every outcome a caller received is a written outcome, and
\* a wait that has returned was on a written slot); ready() is never blocked (a
\* thread at one of its calls can take that step) and is true exactly when the
\* result slot has been written.
CallsReady(t) == th[t].pc \in {"await_ready", "await_suspend", "reg_ready"}

C11_ReadOnlyAfterWrite ==
    /\ \A b \in Tasks :
        /\ Ready(b) <=> writes[b] >= 1
        /\ seen[b] # {} => writes[b] >= 1
        /\ \A o \in seen[b] : o.kind \in {"value", "error"}
    /\ th[Main].ret = "waited" => writes[prog.gets[th[Main].k]] >= 1
    /\ \A t \in Workers :
        CallsReady(t) /\ ~crashed =>
            ENABLED (AwaitReady(t) \/ AwaitSuspend(t) \/ RegisterReady(t))

\* C11 witness: main has returned from wait() on a written task, a get_result
\* inside an await has returned too, and ready() is false for a task that was
\* created and is not written yet.
C11_Witness ==
    /\ th[Main].ret = "waited"
    /\ \E b \in Tasks : seen[b] # {}
    /\ \E b \in Tasks : fstate[b] # "none" /\ ~Ready(b) /\ writes[b] = 0
    /\ \E t \in Workers : CallsReady(t)

\* C12: a resume item for a waiter is in the queue (or dispatched) only if the
\* waiter is registered with a task whose result slot has been written, and a
\* worker that is about to read the awaited result in await_resume finds it
\* ready, so that the read does not block the worker.
ResumerOfWritten(h) ==
    \E e \in Entries : Entry(e).h = h /\ Entry(e).subs >= 1 /\ Ready(e[1])

C12_ResumedReadDoesNotBlock ==
    /\ \A i \in 1..Len(queue) :
        queue[i].kind = "resumer" => ResumerOfWritten(queue[i].h)
    /\ \A w \in Workers :
        /\ th[w].pc = "exec" /\ th[w].kind = "resumer" => ResumerOfWritten(th[w].f)
        /\ th[w].pc = "await_resume" => Ready(Awaited(w))

\* C13: a thread inside resume_all_continuations stays in its own frame: a step
\* of its for_each appends exactly one resumer of the current continuation to
\* the queue and runs no body; and a suspended frame starts to run only when a
\* worker leaves the dispatch of an item for that frame (or, before the frame
\* was registered, when the await_suspend that was suspending it returns false).
InResumeAll(t) == th[t].pc \in {"ra_push", "ra_notify"}

C13_ResumeAllOnlyEnqueues ==
    [][/\ \A t \in Threads :
            InResumeAll(t) /\ th'[t] # th[t] =>
                /\ th'[t].pc \in {"ra_push", "ra_notify", "final", "idle"}
                /\ th'[t].pc # "idle" => th'[t].f = th[t].f
                /\ th[t].pc = "ra_push" /\ th[t].i <= Len(conts[th[t].cm]) =>
                        /\ th'[t].pc = "ra_notify"
                        /\ queue' = Append(queue,
                                Item("resumer", conts[th[t].cm][th[t].i].h, 0, 0))
                /\ th[t].pc = "ra_notify" => queue' = queue
       /\ \A f \in Tasks :
            fstate[f] = "susp" /\ fstate'[f] = "run" =>
                \E w \in Workers :
                    /\ th[w].f = f /\ th'[w].f = f /\ th'[w] # th[w]
                    /\ \/ th[w].pc = "exec"
                       \/ th[w].pc = "await_suspend"]_vars

\* C13 witness: a thread is inside resume_all_continuations, between the push
\* of a resumer and its notify_one, and a worker that dispatched a resumer runs
\* the body of the waiter.
C13_Witness ==
    /\ \E t \in Threads : th[t].pc = "ra_notify"
    /\ \E w \in Workers : th[w].kind = "resumer" /\ th[w].pc = "await_resume"

\* C14: every step of the body of a task is taken by a worker thread that
\* dispatched an item of the queue; the thread that calls a task-producing
\* function (the main thread here) never runs a body, and the call returns
\* without waiting for a worker: the new frame is suspended and its state is in
\* the queue when the call returns, and the caller can always take that step.
BodyPcs ==
    {"await_ready", "await_suspend", "register", "reg_ready", "ra_lock", "ra_push",
     "ra_notify", "await_resume", "return_value", "unhandled", "final"}

InBody(t) == th[t].pc \in BodyPcs \/ (th[t].pc \in {"spawn", "spawn_notify"} /\ th[t].f # 0)

StateQueuedOrTaken(c) ==
    \/ \E i \in 1..Len(queue) : queue[i].kind = "state" /\ queue[i].h = c
    \/ fstate[c] # "susp" \/ fidx[c] # 0
    \/ \E w \in Workers : th[w].pc = "exec" /\ th[w].kind = "state" /\ th[w].f = c

C14_BodyOnlyOnWorkers ==
    /\ \A t \in Threads :
        InBody(t) => t \in Workers /\ th[t].kind \in {"state", "resumer"}
    /\ th[Main].f = 0 /\ th[Main].kind = "none"
    /\ \A t \in Threads :
        /\ th[t].pc = "spawn" /\ ~crashed => ENABLED Spawn(t)
        /\ th[t].pc = "spawn_notify" =>
                StateQueuedOrTaken(prog.spawns[th[t].f][th[t].k])
    /\ \A c \in Tasks : fstate[c] = "none" => writes[c] = 0

\* C14 witness: the main thread has its task handle back (it is about to call
\* get_result) while the body of that task has not produced its result, and a
\* worker is running a body.
C14_Witness ==
    /\ th[Main].pc = "get" /\ ~Ready(prog.gets[1])
    /\ fstate[prog.gets[1]] = "susp" /\ fidx[prog.gets[1]] = 0
    /\ \E w \in Workers : InBody(w)

\* C15: mul_add(a, b, c, d) completes with a * b + c * d in every interleaving:
\* its result slot never holds anything else, and a run of mul_add cannot end
\* (the process terminated, or every thread blocked for good) before that value
\* has been written.
IsMulAdd == prog.spawns[0] = <<1>>

Products == [i \in 1..Len(prog.awaits[1]) |->
                prog.args[prog.awaits[1][i]][1] * prog.args[prog.awaits[1][i]][2]]

MulAddValue == [kind |-> "value", val |-> SumSeq(Products)]

Ended == crashed \/ Quiescent

C15_MulAddValue ==
    IsMulAdd =>
        /\ Ready(1) => Outcome(slot[1]) = MulAddValue
        /\ Ended => Ready(1)

\* The part of C15 that is about the value only.
C15_ValueIfComplete ==
    IsMulAdd => (Ready(1) => Outcome(slot[1]) = MulAddValue) /\ seen[1] \subseteq {MulAddValue}

\* C16: when no body throws, a run never ends (the process terminated, or main
\* and every worker blocked with nothing left in the queue) before every task
\* has completed with its correct result and main has received the results it
\* asked for; here the tasks outnumber the workers.
RECURSIVE ExpectedValue(_)
ExpectedValue(t) ==
    IF Leaf(prog, t) THEN prog.args[t][1] * prog.args[t][2]
    ELSE SumSeq([i \in 1..Len(prog.awaits[t]) |-> ExpectedValue(prog.awaits[t][i])])

Completed(t) == Ready(t) /\ Outcome(slot[t]) = [kind |-> "value", val |-> ExpectedValue(t)]

C16_AllTasksComplete ==
    /\ \A t \in Tasks : Ready(t) => Completed(t)
    /\ Ended => \A t \in Tasks : Completed(t)

\* C17: no lock is held across the call of execute(): while a worker is about
\* to call or is inside execute() of the item it dequeued, the queue mutex is
\* free, and at the call the worker holds no continuation-list mutex; such a
\* mutex is held only by a thread inside resume_all_continuations, which calls
\* schedule() and never execute(), and that thread can always go on.  So an
\* item that calls schedule() or register_continuation inside execute() waits
\* at most for a thread that is not waiting for it.
Executing(w) == th[w].pc = "exec" \/ InBody(w)

Exits(w) == th[w].pc # "exited" /\ th'[w].pc = "exited"

C18_ExitsOnlyOnEmptyQueue ==
    [][\A w \in Workers : Exits(w) => queue = <<>> /\ stop[w]]_vars

Holds(w, id) == th[w].pc \in {"exec", "work_notify"} /\ th[w].id = id

C20_DequeuedItemIsExecuted ==
    /\ \A i \in 1..Len(deqLog) :
        \/ runs[deqLog[i]] = 1 /\ \A w \in Workers : ~(th[w].pc = "exec" /\ th[w].id = deqLog[i])
        \/ runs[deqLog[i]] = 0 /\ \E w \in Workers : th[w].pc = "exec" /\ th[w].id = deqLog[i]
    /\ \A w \in Workers :
        /\ th[w].pc = "exec" => ENABLED ExecuteWork(w)
        /\ th[w].pc = "work_notify" => runs[th[w].id] = 1 /\ ENABLED WorkNotify(w)
        /\ th[w].pc = "exited" => th[w].id = 0

\* C20 witness: stop was requested for a worker after it had dequeued an item
\* and before the execute() of that item has returned, and the item is running.
C20_Witness ==
    \E w \in Workers :
        /\ stop[w] /\ th[w].pc = "work_notify"
        /\ th[w].id \notin late /\ runs[th[w].id] = 1

\* C21: once the destructor of the executor has started to request stop, every
\* worker for which stop was requested eventually leaves run_thread (none stays
\* asleep on the empty queue), and all joins of the destructor return.
C21_ShutdownTerminates ==
    /\ \A w \in Workers : stop[w] ~> th[w].pc = "exited"
    /\ th[Main].pc = "request_stop" ~> th[Main].pc = "destroyed"

\* C21 witness: the destructor has returned from its last join, every worker
\* has left run_thread, and an item was executed before.
C21_Witness ==
    /\ th[Main].pc = "destroyed"
    /\ \A w \in Workers : th[w].pc = "exited"
    /\ \E id \in 1..MaxItems : runs[id] = 1

\* C22: a schedule() call made after stop has been requested for every worker
\* is rejected: it does not add an item to the queue.
AllStopRequested == \A w \in Workers : stop[w]

C22_ScheduleAfterStopRejected ==
    [][AllStopRequested => Len(queue') <= Len(queue)]_vars

\* C23: a failure raised inside a task body never leaves execute(): at
\* unhandled_exception it can be stored as the outcome of the task (the promise
\* is not satisfied yet, so set_exception does not throw out of the noexcept
\* execute()), and every caller of get_result of a task whose body failed
\* received the failure.
Failed(t) == slot[t].kind = "error"

C23_FailureStoredNotPropagated ==
    /\ \A w \in Workers : th[w].pc = "unhandled" => ~Ready(th[w].f)
    /\ \A t \in Tasks : Failed(t) => seen[t] \subseteq {[kind |-> "error", val |-> 0]}

\* C26: when the awaited task is already complete at await_ready, or at the
\* readiness check at the start of await_suspend, the awaiting frame goes on
\* to await_resume on the same thread, and that step registers no continuation,
\* enqueues no resume item and does not suspend the frame.
ChecksReadiness(t) == th[t].pc \in {"await_ready", "await_suspend"}

C26_CompleteAwaitedContinuesInline ==
    [][\A t \in Workers :
        ChecksReadiness(t) /\ Ready(Awaited(t)) /\ th'[t] # th[t] =>
            /\ th'[t] = [th[t] EXCEPT !.pc = "await_resume"]
            /\ conts' = conts
            /\ queue' = queue
            /\ fstate'[th[t].f] \in {fstate[th[t].f], "run"}]_vars

\* C26 witness: a frame went on inline from the readiness check of await_suspend
\* (it had stored its suspension point, is running again, and is about to read
\* the outcome), and no continuation of it was registered with the awaited task.
C26_Witness ==
    \E t \in Workers :
        /\ th[t].pc = "await_resume" /\ th[t].kind = "state"
        /\ fidx[th[t].f] = th[t].k /\ fstate[th[t].f] = "run"
        /\ \A i \in 1..Len(conts[Awaited(t)]) : conts[Awaited(t)][i].h # th[t].f

\* C27: every task moves through its lifecycle states in the stated order
\* only: Created, Scheduled, Running, back and forth between Running and
\* AwaitingChild, Completed; Completed is never left; and the task scheduler
\* schedules the state of a task once, when the task is created.
\* A task is Running while a worker executes its body, Completed once its
\* outcome is written and no worker executes its body, Scheduled while its
\* frame waits at the initial suspension point, and AwaitingChild while its
\* frame is suspended at a co_await.
RunningPcs == {"spawn", "spawn_notify", "await_ready", "await_resume", "return_value", "unhandled"}

Runs(w, t) == th[w].f = t /\ th[w].pc \in RunningPcs

Lifecycle(t) ==
    IF \E w \in Workers : Runs(w, t) THEN "Running"
    ELSE IF Ready(t) THEN "Completed"
    ELSE IF fstate[t] = "none" THEN "Created"
    ELSE IF fstate[t] = "susp" THEN (IF fidx[t] = 0 THEN "Scheduled" ELSE "AwaitingChild")
    ELSE "Destroyed"

LifecycleSteps ==
    {<<"Created", "Scheduled">>, <<"Scheduled", "Running">>,
     <<"Running", "AwaitingChild">>, <<"AwaitingChild", "Running">>,
     <<"Running", "Completed">>}

StateItems(t) ==
    Cardinality({i \in 1..Len(queue) : queue[i].kind = "state" /\ queue[i].h = t})
    + Cardinality({w \in Workers : th[w].pc = "exec" /\ th[w].kind = "state" /\ th[w].f = t})

C27_LifecycleOrder ==
    [][\A t \in Tasks :
        /\ Lifecycle(t)' # Lifecycle(t) => <<Lifecycle(t), Lifecycle(t)'>> \in LifecycleSteps
        /\ StateItems(t)' > StateItems(t) =>
                Lifecycle(t) = "Created" /\ StateItems(t)' = 1
        /\ StateItems(t)' = 1 => Lifecycle(t)' = "Scheduled"]_vars

\* C29: no frame is executed by two threads at the same time: at most one
\* thread is inside a frame, where inside means running its body or being in
\* its await_suspend / register_continuation (which read the awaiter stored in
\* the frame).
InFrame(t, f) == InBody(t) /\ th[t].f = f

C29_OneThreadPerFrame ==
    \A f \in Tasks : Cardinality({t \in Workers : InFrame(t, f)}) <= 1

\* C30: concurrent register_continuation calls on one task never lose or
\* corrupt an entry: a step adds at most one continuation to a list and keeps
\* the handles already there, in place; a registration that has returned from
\* the push_back has its own handle at the position it appended to; and the
\* list does not change while a resume_all_continuations holds its mutex, so
\* the loop sees each continuation entirely or not at all.
HandlesOf(cs) == [i \in 1..Len(cs) |-> cs[i].h]

IsPrefix(a, b) == Len(a) <= Len(b) /\ SubSeq(b, 1, Len(a)) = a

Registered(t) == th[t].pc = "reg_ready"

C30_RegistrationsAtomic ==
    [][/\ \A b \in Tasks :
            /\ IsPrefix(HandlesOf(conts[b]), HandlesOf(conts'[b]))
            /\ Len(conts'[b]) <= Len(conts[b]) + 1
            /\ cmLock[b] # NoThread => Len(conts'[b]) = Len(conts[b])
       /\ \A t \in Workers : Registered(t)' =>
            /\ th'[t].i \in 1..Len(conts'[Awaited(t)'])
            /\ conts'[Awaited(t)'][th'[t].i].h = th'[t].f]_vars

\* Two different frames are registered on one task and a resume_all of that
\* task has reached the second one while a registration has just returned.
C30_Witness ==
    \E b \in Tasks :
        /\ Len(conts[b]) >= 2
        /\ conts[b][1].h # conts[b][2].h
        /\ \E t \in Workers : th[t].pc = "ra_push" /\ th[t].cm = b /\ th[t].i = 2
        /\ \E t \in Workers : Registered(t) /\ Awaited(t) = b

\* ------------------------------------------------------ the executor provider
\* executor_provider<>::get_executor: static class executor instance
\* { concurrency_level }; return instance.  The initialisation of a static
\* local is guarded: the first thread to arrive runs the constructor, a thread
\* that arrives while it runs waits for it, every later call returns at once.
Return(t) ==
    [provider EXCEPT !.calls[t] = @ + 1, !.got[t] = @ \cup {provider.ctors}]

GetExecutorUnguarded(t) ==
    /\ th[t].pc = "client"
    /\ provider.calls[t] < MaxCalls
    /\ IF provider.guard = "ready"
       THEN /\ provider' = Return(t)
            /\ UNCHANGED th
       ELSE /\ provider' = [provider EXCEPT !.guard = "running", !.ctors = @ + 1]
            /\ th' = [th EXCEPT ![t].pc = "ctor", ![t].i = 0]
    /\ UNCHANGED <<queue, fstate, fidx, locals, slot, writes, conts, cmLock, crashed,
                   prog, seen, dropped, lazy, hist, execGhost, stop, qLock>>

GetExecutor(t) ==
    /\ th[t].pc = "client"
    /\ provider.calls[t] < MaxCalls
    /\ CASE provider.guard = "ready" ->
                /\ provider' = Return(t)
                /\ UNCHANGED th
         [] provider.guard = "uninit" ->
                /\ provider' = [provider EXCEPT !.guard = "running", !.ctors = @ + 1]
                /\ th' = [th EXCEPT ![t].pc = "ctor", ![t].i = 0]
         [] provider.guard = "running" ->
                /\ th' = [th EXCEPT ![t].pc = "static_wait"]
                /\ UNCHANGED provider
    /\ UNCHANGED <<queue, fstate, fidx, locals, slot, writes, conts, cmLock, crashed,
                   prog, seen, dropped, lazy, hist, execGhost, stop, qLock>>

\* executor::executor(number_of_threads): one emplace_back of a worker thread
\* per iteration; after the last one the static is initialised and
\* get_executor returns it.
ExecutorCtor(t, number_of_threads) ==
    /\ th[t].pc = "ctor"
    /\ IF th[t].i < number_of_threads
       THEN /\ provider' = [provider EXCEPT !.workers = @ + 1]
            /\ th' = [th EXCEPT ![t].i = @ + 1]
       ELSE /\ provider' = [Return(t) EXCEPT !.guard = "ready"]
            /\ th' = [th EXCEPT ![t].pc = "client", ![t].i = 0]
    /\ UNCHANGED <<queue, fstate, fidx, locals, slot, writes, conts, cmLock, crashed,
                   prog, seen, dropped, lazy, hist, execGhost, stop, qLock>>

\* A thread that waited for the initialisation goes on once it has completed.
StaticWait(t) ==
    /\ th[t].pc = "static_wait"
    /\ provider.guard = "ready"
    /\ provider' = Return(t)
    /\ th' = [th EXCEPT ![t].pc = "client"]
    /\ UNCHANGED <<queue, fstate, fidx, locals, slot, writes, conts, cmLock, crashed,
                   prog, seen, dropped, lazy, hist, execGhost, stop, qLock>>

\* Any thread of the process may be the first to call get_executor.
InitProvider ==
    /\ queue = <<>>
    /\ th = [t \in Threads |-> [Idle EXCEPT !.pc = "client"]]
    /\ InitTasks
    /\ prog = NoProg
    /\ InitExecGhost
    /\ stop = [w \in Workers |-> FALSE]
    /\ qLock = NoThread
    /\ provider = ProviderUninit

NextProvider ==
    \/ \E t \in Threads : GetExecutor(t)
    \/ \E t \in Threads : ExecutorCtor(t, DEFAULT_CONCURRENCY)
    \/ \E t \in Threads : StaticWait(t)

SpecProvider == InitProvider /\ [][NextProvider]_vars

\* C28: every call of get_executor, from any thread and at any time, returns
\* the same single executor: the constructor runs at most once, and only as
\* part of a call (the first), every call returns the executor of that one
\* construction, fully constructed; its workers are created by that
\* construction only, DEFAULT_CONCURRENCY (4) of them, and their number never
\* changes once the executor has been returned.
Returned == \E t \in Threads : provider.got[t] # {}

C28_SingleExecutor ==
    [][/\ provider'.ctors <= 1
       /\ \A t \in Threads : provider'.got[t] \subseteq {1}
       /\ provider'.ctors > provider.ctors =>
            provider.guard = "uninit" /\ provider.workers = 0 /\ ~Returned
       /\ Returned' => provider'.guard = "ready" /\ provider'.workers = DEFAULT_CONCURRENCY
       /\ Returned => provider'.workers = provider.workers]_vars

\* A thread has made all its calls and holds the executor while another
\* thread, which arrived during the construction, still waits for it.
C28_Witness ==
    /\ \E t \in Threads : provider.calls[t] = MaxCalls /\ provider.got[t] = {1}
    /\ \E t \in Threads : th[t].pc = "static_wait"
    /\ provider.workers = DEFAULT_CONCURRENCY
    /\ provider.ctors = 1

\* ------------------------------------------------- dropping the task handles
\* The end of the scope of the client function (example_4d): the ctask objects
\* of the main thread are destroyed.  ~state prints a line and nothing else.
DropHandles ==
    /\ th[Main].pc = "done"
    /\ ~dropped
    /\ dropped' = TRUE
    /\ UNCHANGED <<queue, th, fstate, fidx, locals, slot, writes, conts, cmLock,
                   crashed, prog, seen, provider, lazy, hist>>

\* Client programs whose main thread asks for no result, or for the result of
\* task 1 only, before it leaves its scope.
WithGets(p, g) == [p EXCEPT !.gets = g]

DropPrograms == {WithGets(p, g) : p \in Programs, g \in {<<>>, <<1>>}}

InitDrop ==
    /\ queue = <<>>
    /\ InitTasks
    /\ prog \in DropPrograms
    /\ th = [t \in Threads |-> IF t = Main THEN SpawnPos(Idle, 0, 1) ELSE Idle]
    /\ InitExecGhost
    /\ InitPool

NextDrop ==
    \/ \E w \in Workers : RunThread(w) /\ UNCHANGED <<taskVars, execGhost>>
    \/ \E w \in Workers : WakeUp(w) /\ UNCHANGED <<taskVars, execGhost>>
    \/ \E w \in Workers : SpuriousWake(w) /\ UNCHANGED <<taskVars, execGhost>>
    \/ \E w \in Workers : ExecuteState(w) /\ UNCHANGED <<execGhost, poolVars, clientVars>>
    \/ \E w \in Workers : ExecuteResumer(w) /\ UNCHANGED <<execGhost, poolVars, clientVars>>
    \/ \E t \in Threads : Spawn(t) /\ UNCHANGED <<execGhost, poolVars, clientVars>>
    \/ \E t \in Threads : SpawnNotify(t) /\ UNCHANGED <<execGhost, poolVars, clientVars>>
    \/ \E t \in Workers : AwaitReady(t) /\ UNCHANGED <<execGhost, poolVars, clientVars>>
    \/ \E t \in Workers : AwaitSuspend(t) /\ UNCHANGED <<execGhost, poolVars, clientVars>>
    \/ \E t \in Workers : Register(t) /\ UNCHANGED <<execGhost, poolVars, clientVars>>
    \/ \E t \in Workers : RegisterReady(t) /\ UNCHANGED <<execGhost, poolVars, clientVars>>
    \/ \E t \in Workers : ResumeAllLock(t) /\ UNCHANGED <<execGhost, poolVars, clientVars>>
    \/ \E t \in Workers : ResumeAllPush(t) /\ UNCHANGED <<execGhost, poolVars, clientVars>>
    \/ \E t \in Workers : ResumeAllNotify(t) /\ UNCHANGED <<execGhost, poolVars, clientVars>>
    \/ \E t \in Workers : AwaitResume(t) /\ UNCHANGED <<execGhost, poolVars, clientVars>>
    \/ \E t \in Workers : ReturnValue(t) /\ UNCHANGED <<execGhost, poolVars, clientVars>>
    \/ \E t \in Workers : UnhandledException(t) /\ UNCHANGED <<execGhost, poolVars, clientVars>>
    \/ \E t \in Workers : FinalSuspend(t) /\ UNCHANGED <<execGhost, poolVars, clientVars>>
    \/ WaitResult /\ UNCHANGED <<execGhost, poolVars, clientVars>>
    \/ GetResult /\ UNCHANGED <<execGhost, poolVars, clientVars>>
    \/ DropHandles /\ UNCHANGED <<execGhost, poolVars>>

SpecDrop == InitDrop /\ [][NextDrop]_vars

\* C24: when the last owner of a task state goes away while the frame of the
\* task is suspended and unfinished, the frame is destroyed in the same step.
C24_SuspendedFrameDestroyedWithState ==
    [][\A t \in Tasks :
        fstate[t] = "susp" /\ StateAlive(t) /\ ~StateAlive(t)' => fstate'[t] = "done"]_vars

\* C25: once a task has completed (its outcome is written and its frame is
\* gone) and nothing owns its state any more, no handle of its frame is left:
\* not in the continuation list of a task whose state exists, not in a queued
\* resumer, not in a resumer a worker has dequeued.
Finished(t) == Ready(t) /\ fstate[t] = "done"

HandleInList(t) ==
    \E b \in Tasks : StateAlive(b) /\ \E i \in 1..Len(conts[b]) : conts[b][i].h = t

HandleInQueue(t) ==
    \/ \E i \in 1..Len(queue) : queue[i].kind = "resumer" /\ queue[i].h = t
    \/ \E w \in Workers : th[w].pc = "exec" /\ th[w].kind = "resumer" /\ th[w].f = t

C25_NoHandleAfterCompletionAndDrop ==
    \A t \in Tasks :
        Finished(t) /\ ~StateAlive(t) => ~HandleInList(t) /\ ~HandleInQueue(t)

\* C31: lock acquisition is cycle-free.  A thread holds at most one
\* continuation-list mutex, and holds it only inside resume_all_continuations,
\* where the only lock it asks for is the queue mutex; no thread that holds the
\* queue mutex asks for a continuation-list mutex (the queue mutex is free in
\* every state in which a thread is about to lock a list); and the holder of a
\* list mutex can always take its next step, so no thread waits in a cycle.
ListsHeldBy(t) == {b \in Tasks : cmLock[b] = t}

AsksForList(t) == th[t].pc \in {"register", "ra_lock"}

C31_LockOrderAcyclic ==
    /\ \A t \in Threads : Cardinality(ListsHeldBy(t)) <= 1
    /\ \A t \in Threads : ListsHeldBy(t) # {} => InResumeAll(t) /\ ListsHeldBy(t) = {th[t].cm}
    /\ \A t \in Threads : AsksForList(t) => qLock # t /\ ListsHeldBy(t) = {}
    /\ \A t \in Threads : ListsHeldBy(t) # {} /\ ~crashed =>
            ENABLED (ResumeAllPush(t) \/ ResumeAllNotify(t))

\* C31 witness: a thread holds the list mutex of a task inside resume_all and
\* is about to lock the queue mutex for a push, while another thread waits for
\* that list mutex at the start of its own resume_all.
C31_Witness ==
    \E t \in Workers, u \in Workers :
        /\ t # u
        /\ th[t].pc = "ra_push" /\ cmLock[th[t].cm] = t /\ th[t].i <= Len(conts[th[t].cm])
        /\ th[u].pc = "ra_lock" /\ th[u].cm = th[t].cm

\* ---------------------------------------------------------------------
\* C33: a frame that completes after every owner of its state has gone
\* leaves the shared state alone.  Whenever a thread executes return_value,
\* unhandled_exception or final_suspend of a frame whose state is no
\* longer owned, the step writes no result (no result slot and no write
\* count changes), starts no resume_all (the thread goes straight to
\* final_suspend and from there out of the frame, and the queue receives
\* nothing), touches neither a continuation list nor its lock, and does
\* not end the program abnormally.
Completing(t) == th[t].pc \in {"return_value", "unhandled", "final"}
Orphan(f) == fstate[f] # "none" /\ ~StateAlive(f)
C33_OrphanCompletionTouchesNothing ==
    [][\A t \in Threads :
            Completing(t) /\ Orphan(th[t].f) /\ th'[t] # th[t] =>
                /\ th'[t].pc = IF th[t].pc = "final" THEN Leave(t).pc ELSE "final"
                /\ slot' = slot
                /\ writes' = writes
                /\ conts' = conts
                /\ cmLock' = cmLock
                /\ queue' = queue
                /\ crashed' = crashed]_vars

\* A frame that awaited a child has finished although nobody owned its
\* state any more: it is done, no result was ever written, and the child
\* it awaited is complete.
C33_Witness ==
    \E f \in Tasks :
        /\ fstate[f] = "done"
        /\ Orphan(f)
        /\ prog.awaits[f] # <<>>
        /\ writes[f] = 0
        /\ ~slot[f].ready
        /\ dropped

\* ---------------------------------------------------------------------
\* Examples 3a, 3b, 3c: a coroutine_result whose value() resumes the
\* coroutine on demand.  Everything runs on the calling thread, so every
\* call is one step.

\* co_return 0x3a; co_return 0x3b;
RESULT_3A == 58
RESULT_3B == 59

LazyVariants == {"3a", "3b", "3c"}

\* The variables of the task runtime, which the lazy result does not use.
runtimeVars ==
    <<queue, th, fstate, fidx, locals, slot, writes, conts, cmLock, crashed,
      prog, seen, dropped, provider, hist, execGhost, poolVars>>

\* What the body co_returns: a literal in 3a and 3b, the number read from
\* std::cin in 3c.
CoReturned(l) ==
    CASE l.variant = "3a" -> RESULT_3A
      [] l.variant = "3b" -> RESULT_3B
      [] OTHER -> l.input

\* promise_type::return_value: store the value if the state is still there.
LazyReturnValue(l, v) == IF l.refs > 0 THEN [l EXCEPT !.value = v] ELSE l

\* The final_suspend of 3a: it leaves state::handle as it is.
LazyFinalSuspendKeepsHandle(l) == l

\* promise_type::final_suspend: 3b and 3c clear state::handle, 3a does not.
LazyFinalSuspend(l) ==
    IF l.variant \in {"3b", "3c"} /\ l.refs > 0 THEN [l EXCEPT !.handle = FALSE] ELSE l

\* The frame is released: by falling off final_suspend (suspend_never) or by
\* handle.destroy().
ReleaseFrame(l) == [l EXCEPT !.frame = "done", !.released = @ + 1]

\* The body from the point where it is suspended to its end: co_return,
\* final_suspend, release of the frame.
RunToEnd(l) == ReleaseFrame(LazyFinalSuspend(LazyReturnValue(l, CoReturned(l))))

\* state::~state: 3b and 3c destroy the frame if state::handle is non-null;
\* 3a has no destructor.
StateDestructor(l) ==
    IF l.variant \in {"3b", "3c"} /\ l.handle THEN ReleaseFrame(l) ELSE l

\* coro_3a(), coro_3b(), coro_3c(): get_return_object creates the state and
\* stores the handle; 3a and 3b run the body up to co_await suspend_always,
\* 3c suspends at initial_suspend.  The caller receives the coroutine_result.
CallCoroutine(v, inp) ==
    /\ lazy = NoLazy
    /\ lazy' = [NoLazy EXCEPT !.variant = v, !.frame = "susp", !.handle = TRUE,
                              !.refs = 1, !.input = IF v = "3c" THEN inp ELSE 0]
    /\ UNCHANGED runtimeVars

\* A copy of the coroutine_result (it is copyable: its only member is the
\* shared_ptr).
CopyResult ==
    /\ ~lazy.fault
    /\ lazy.refs > 0
    /\ lazy.refs < MaxResults
    /\ lazy' = [lazy EXCEPT !.refs = @ + 1]
    /\ UNCHANGED runtimeVars

\* handle.resume() inside value().  On a suspended frame the body runs to
\* its end.  On a frame that has been released the behaviour is undefined:
\* the process faults, or the call returns without effect, or the body code
\* runs once more over the released memory.
ResumeOutcomes(l) ==
    IF l.frame = "susp"
    THEN {RunToEnd([l EXCEPT !.resumes = @ + 1])}
    ELSE {[l EXCEPT !.resumes = @ + 1, !.fault = TRUE],
          [l EXCEPT !.resumes = @ + 1],
          RunToEnd([l EXCEPT !.resumes = @ + 1])}

\* coroutine_result::value: resume if state::handle is non-null, then
\* return state::value.
Value ==
    /\ ~lazy.fault
    /\ lazy.refs > 0
    /\ lazy.calls < MaxValueCalls
    /\ \E r \in (IF lazy.handle THEN ResumeOutcomes(lazy) ELSE {lazy}) :
           lazy' = IF r.fault
                   THEN [r EXCEPT !.calls = @ + 1]
                   ELSE [r EXCEPT !.calls = @ + 1, !.got = Append(@, r.value)]
    /\ UNCHANGED runtimeVars

\* A coroutine_result goes out of scope; the last one destroys the state.
DropResult ==
    /\ ~lazy.fault
    /\ lazy.refs > 0
    /\ lazy' = IF lazy.refs = 1
               THEN StateDestructor([lazy EXCEPT !.refs = 0])
               ELSE [lazy EXCEPT !.refs = @ - 1]
    /\ UNCHANGED runtimeVars

InitLazy ==
    /\ queue = <<>>
    /\ th = [t \in Threads |-> Idle]
    /\ InitTasks
    /\ prog = NoProg
    /\ InitExecGhost
    /\ InitPool

NextLazy ==
    \/ \E v \in LazyVariants, inp \in 0..MaxOperand : CallCoroutine(v, inp)
    \/ CopyResult
    \/ Value
    \/ DropResult

SpecLazy == InitLazy /\ [][NextLazy]_vars

\* ---------------------------------------------------------------------
\* C35: in 3b and 3c the coroutine frame is released exactly once, whatever
\* the sequence of value() calls, copies and drops.  It is never released
\* twice; it has been released exactly when it no longer exists; as long as
\* a coroutine_result is left, it has been released exactly if value() has
\* run the body to its end, and state::handle is non-null exactly while the
\* frame is still suspended; once the last coroutine_result is gone the
\* frame has been released once (by the body if value() was called, by the
\* destructor of the state otherwise); and the process never faults.
Lazy3b3c == lazy.variant \in {"3b", "3c"}
C35_FrameReleasedExactlyOnce ==
    Lazy3b3c =>
        /\ lazy.released <= 1
        /\ lazy.released = 1 <=> lazy.frame = "done"
        /\ lazy.refs > 0 => (lazy.released = 1 <=> lazy.calls > 0)
        /\ lazy.refs > 0 => (lazy.handle <=> lazy.frame = "susp")
        /\ lazy.refs = 0 => lazy.released = 1
        /\ lazy.resumes <= 1
        /\ ~lazy.fault

\* value() has been called at least twice, the first call ran the body to
\* its end, and afterwards the last coroutine_result has gone: the frame has
\* been released once, by the body, and the destructor of the state has
\* left it alone.
C35_Witness ==
    /\ Lazy3b3c
    /\ lazy.refs = 0
    /\ lazy.released = 1
    /\ lazy.calls >= 2
    /\ lazy.resumes = 1

\* ---------------------------------------------------------------------
\* C36: in 3a, 3b and 3c value() may be called any number of times.  A call
\* of value() resumes the coroutine only if its frame is still suspended
\* (never a coroutine that has run to completion), all calls together resume
\* it at most once, no call ends the process, and every call returns the
\* value the body co_returns.
ValueCalled == lazy'.calls = lazy.calls + 1
C36_ValueResumesOnce ==
    [][ValueCalled =>
         /\ lazy'.resumes > lazy.resumes => lazy.frame = "susp"
         /\ lazy'.resumes <= 1
         /\ ~lazy'.fault
         /\ Len(lazy'.got) = lazy'.calls
         /\ \A i \in 1..Len(lazy'.got) : lazy'.got[i] = CoReturned(lazy)]_vars

\* ---------------------------------------------------------------------
\* Examples 4a, 4b, 4c: the task scheduler on the executor, without
\* continuations.  4a and 4b start the body on the calling thread and the
\* body itself awaits the task scheduler; 4c schedules the frame at
\* initial_suspend and its parent body blocks in get() on its children.
\* The executor is the one of 4d (same code), with the pool of
\* executor_provider<>.

\* co_return -1; co_return 0x4b; the documented result of mul_add(2, 4, 6, 8)
RESULT_4A == -1
RESULT_4B == 75
DOCUMENTED_4C == 56

\* mul_add(2, 4, 6, 8): multiply(a, b) and multiply(c, d)
ChildArgs == <<<<2, 4>>, <<6, 8>>>>
Children == {1 + i : i \in 1..Len(ChildArgs)}

PoolOfOne == 1..1
\* The threads of executor instance { concurrency_level }
Pool == 1..DEFAULT_CONCURRENCY

\* A program of the variants: the example, the tasks whose body throws
\* instead of returning, whether main calls get() before it drops its task,
\* and the order in which the build evaluates p1.get() + p2.get().
VariantPrograms ==
    {[variant |-> "4a", fails |-> F, gets |-> <<>>, order |-> <<>>] : F \in {{}, {1}}}
    \cup {[variant |-> "4b", fails |-> F, gets |-> g, order |-> <<>>] :
            F \in {{}, {1}}, g \in {<<>>, <<1>>}}
    \cup {[variant |-> "4c", fails |-> F, gets |-> g, order |-> o] :
            F \in {{}} \cup {{c} : c \in Children}, g \in {<<>>, <<1>>},
            o \in {<<2, 3>>, <<3, 2>>}}

\* initial_suspend returns suspend_never in 4a and 4b
Eager == prog.variant \in {"4a", "4b"}
\* state::result_ exists in 4b and 4c
HasResult == prog.variant \in {"4b", "4c"}
\* mul_add, the only body with children
IsParent(f) == prog.variant = "4c" /\ f = 1

\* The owners of the state of task c: the return object while the ramp of c
\* runs; the task of the caller (main's task until it leaves its scope, p1
\* and p2 of mul_add until its body is left); the queue; and the worker that
\* dequeued it, for as long as next->execute() runs.
HeldByRamp(c) == \E t \in DOMAIN th : th[t].pc \in {"v_sched", "v_sched_notify"} /\ th[t].cm = c
HeldByCaller(c) ==
    IF c = 1 THEN th[Main].pc = "v_client" /\ ~dropped
    ELSE \E t \in DOMAIN th :
            /\ th[t].f = 1
            /\ \/ th[t].pc \in {"v_get", "v_return"}
               \/ th[t].pc \in {"v_call", "v_sched", "v_sched_notify"} /\ th[t].cm > c
HeldByQueue(c) == \E i \in 1..Len(queue) : queue[i].h = c
NextMovedAway(c) == FALSE
\* auto next{ std::move(queue_.front()) }; ... next->execute();
HeldByNext(c) == \E w \in DOMAIN th : th[w].kind = "state" /\ th[w].f = c

\* coroutine_promise::get_state: shared_state_.lock() returns the state
GetState(c) ==
    fstate[c] # "none" /\ (HeldByRamp(c) \/ HeldByCaller(c) \/ HeldByQueue(c) \/ HeldByNext(c))

\* What the variants never touch.
variantFrame == <<fidx, conts, cmLock, prog, provider, lazy, execGhost, poolVars>>

\* assert(state) fails: the process aborts.
AssertFails ==
    /\ crashed' = TRUE
    /\ UNCHANGED <<queue, th, fstate, locals, slot, writes, seen, dropped, hist>>

\* The call of a coroutine by thread t, up to the task scheduler:
\* get_return_object, initial_suspend; in 4a and 4b the first part of the
\* body runs here, on the calling thread.
CallVariant(t) ==
    /\ ~crashed
    /\ th[t].pc = "v_call"
    /\ LET c == th[t].cm IN
        /\ fstate[c] = "none"
        /\ fstate' = [fstate EXCEPT ![c] = IF Eager THEN "run" ELSE "susp"]
        /\ hist' = IF Eager THEN [hist EXCEPT !.parts[c] = Append(@, t)] ELSE hist
    /\ th' = [th EXCEPT ![t].pc = "v_sched"]
    /\ UNCHANGED <<queue, locals, slot, writes, crashed, seen, dropped, variantFrame>>

\* What the caller does once the coroutine call has returned its task:
\* main goes on as the client, mul_add calls the next multiply or goes on
\* to the sum.
AfterCall(t) ==
    IF t = Main THEN [th[t] EXCEPT !.pc = "v_client", !.cm = 0]
    ELSE IF th[t].cm + 1 \in Children THEN [th[t] EXCEPT !.pc = "v_call", !.cm = @ + 1]
    ELSE [th[t] EXCEPT !.pc = "v_get", !.k = 1, !.cm = prog.order[1]]

\* A task scheduler that resumes the frame itself instead of handing it to
\* the executor.
SchedulerResumesInline(t) ==
    /\ ~crashed
    /\ th[t].pc = "v_sched"
    /\ LET c == th[t].cm IN
        /\ fstate' = [fstate EXCEPT ![c] = "done"]
        /\ hist' = [hist EXCEPT !.parts[c] = Append(@, t)]
    /\ th' = [th EXCEPT ![t] = AfterCall(t)]
    /\ UNCHANGED <<queue, locals, slot, writes, crashed, seen, dropped, variantFrame>>

\* task_scheduler::await_suspend, the frame is suspended:
\* get_executor().schedule(promise.get_state()), up to the push.
SchedulerAwaitSuspend(t) ==
    /\ ~crashed
    /\ th[t].pc = "v_sched"
    /\ qLock = NoThread
    /\ LET c == th[t].cm IN
        IF GetState(c)
        THEN /\ fstate' = [fstate EXCEPT ![c] = "susp"]
             /\ queue' = Push(queue, Item("state", c, 0, t))
             /\ hist' = [hist EXCEPT !.pushes[c] = @ + 1]
             /\ th' = [th EXCEPT ![t].pc = "v_sched_notify"]
             /\ UNCHANGED <<locals, slot, writes, crashed, seen, dropped>>
        ELSE AssertFails
    /\ UNCHANGED variantFrame

\* executor::schedule: notify_one; await_suspend returns and the caller
\* receives the task.
SchedulerNotify(t) ==
    /\ ~crashed
    /\ th[t].pc = "v_sched_notify"
    /\ NotifyOne(t, AfterCall(t))
    /\ UNCHANGED <<queue, fstate, locals, slot, writes, crashed, seen, dropped, hist, variantFrame>>

\* state::execute on a worker: handle.resume().  The body goes on after its
\* suspension point: the second part of coro_4a / coro_4b, or the start of
\* a body of 4c (co_await of its name).
ExecuteVariant(w) ==
    /\ ~crashed
    /\ th[w].pc = "exec"
    /\ th[w].kind = "state"
    /\ LET f == th[w].f IN
        IF fstate[f] = "susp"
        THEN /\ fstate' = [fstate EXCEPT ![f] = "run"]
             /\ hist' = [hist EXCEPT !.parts[f] = Append(@, w)]
             /\ th' = [th EXCEPT ![w].pc =
                        IF ~Eager THEN "v_name"
                        ELSE IF f \in prog.fails THEN "v_unhandled" ELSE "v_return"]
             /\ UNCHANGED crashed
        ELSE /\ crashed' = TRUE
             /\ UNCHANGED <<fstate, hist, th>>
    /\ UNCHANGED <<queue, locals, slot, writes, seen, dropped, variantFrame>>

\* 4c, co_await fmt::format(...): await_transform(std::string) stores the
\* name through get_state() and does not suspend.  mul_add then calls
\* multiply, a leaf goes on to its co_return or throws.
AwaitTransformName(t) ==
    /\ ~crashed
    /\ th[t].pc = "v_name"
    /\ LET f == th[t].f IN
        IF GetState(f)
        THEN /\ th' = [th EXCEPT ![t] =
                        IF IsParent(f) THEN [@ EXCEPT !.pc = "v_call", !.cm = 2]
                        ELSE IF f \in prog.fails THEN [@ EXCEPT !.pc = "v_unhandled"]
                        ELSE [@ EXCEPT !.pc = "v_return"]]
             /\ UNCHANGED <<queue, fstate, locals, slot, writes, crashed, seen, dropped, hist>>
        ELSE AssertFails
    /\ UNCHANGED variantFrame

\* 4c, mul_add: p1.get() / p2.get() blocks the worker until the child has
\* a result; a stored exception is rethrown into the body of mul_add.
GetChild(t) ==
    /\ ~crashed
    /\ th[t].pc = "v_get"
    /\ LET c == th[t].cm
           f == th[t].f IN
        /\ slot[c].ready
        /\ seen' = [seen EXCEPT ![c] = @ \cup {Outcome(slot[c])}]
        /\ IF slot[c].kind = "error"
           THEN /\ th' = [th EXCEPT ![t].pc = "v_unhandled"]
                /\ UNCHANGED locals
           ELSE /\ locals' = [locals EXCEPT ![f] = Append(@, slot[c].val)]
                /\ th' = [th EXCEPT ![t] =
                            IF th[t].k < Len(prog.order)
                            THEN [@ EXCEPT !.k = @ + 1, !.cm = prog.order[th[t].k + 1]]
                            ELSE [@ EXCEPT !.pc = "v_return"]]
    /\ UNCHANGED <<queue, fstate, slot, writes, crashed, dropped, hist, variantFrame>>

\* The value of co_return: -1 in coro_4a, 0x4b in coro_4b, a * b in
\* multiply, p1.get() + p2.get() in mul_add.
VariantValue(f) ==
    CASE prog.variant = "4a" -> RESULT_4A
      [] prog.variant = "4b" -> RESULT_4B
      [] IsParent(f) -> locals[f][1] + locals[f][2]
      [] OTHER -> ChildArgs[f - 1][1] * ChildArgs[f - 1][2]

\* coroutine_promise::return_value: 4a prints; 4b and 4c call
\* get_state()->result_.set_value.
VariantReturnValue(t) ==
    /\ ~crashed
    /\ th[t].pc = "v_return"
    /\ LET f == th[t].f IN
        IF ~HasResult
        THEN /\ th' = [th EXCEPT ![t].pc = "v_final"]
             /\ UNCHANGED <<queue, fstate, locals, slot, writes, crashed, seen, dropped, hist>>
        ELSE IF GetState(f)
        THEN /\ slot' = [slot EXCEPT ![f] = PromiseSet(@, "value", VariantValue(f))]
             /\ writes' = [writes EXCEPT ![f] = @ + 1]
             /\ th' = [th EXCEPT ![t].pc = "v_final"]
             /\ UNCHANGED <<queue, fstate, locals, crashed, seen, dropped, hist>>
        ELSE AssertFails
    /\ UNCHANGED variantFrame

\* coroutine_promise::unhandled_exception: 4a prints; 4b and 4c call
\* get_state()->result_.set_exception.
VariantUnhandledException(t) ==
    /\ ~crashed
    /\ th[t].pc = "v_unhandled"
    /\ LET f == th[t].f IN
        IF ~HasResult
        THEN /\ th' = [th EXCEPT ![t].pc = "v_final"]
             /\ UNCHANGED <<queue, fstate, locals, slot, writes, crashed, seen, dropped, hist>>
        ELSE IF GetState(f)
        THEN /\ slot' = [slot EXCEPT ![f] = PromiseSet(@, "error", 0)]
             /\ writes' = [writes EXCEPT ![f] = @ + 1]
             /\ th' = [th EXCEPT ![t].pc = "v_final"]
             /\ UNCHANGED <<queue, fstate, locals, crashed, seen, dropped, hist>>
        ELSE AssertFails
    /\ UNCHANGED variantFrame

\* coroutine_promise::final_suspend: get_state()->handle = nullptr, then
\* suspend_never: the frame is destroyed, execute() returns and run_thread
\* lets go of next.
VariantFinalSuspend(t) ==
    /\ ~crashed
    /\ th[t].pc = "v_final"
    /\ LET f == th[t].f IN
        IF GetState(f)
        THEN /\ fstate' = [fstate EXCEPT ![f] = "done"]
             /\ th' = [th EXCEPT ![t] = Idle]
             /\ UNCHANGED <<queue, locals, slot, writes, crashed, seen, dropped, hist>>
        ELSE AssertFails
    /\ UNCHANGED variantFrame

\* example_4b / example_4c: task.get() blocks main until the result is
\* there.
GetTask ==
    /\ ~crashed
    /\ th[Main].pc = "v_client"
    /\ prog.gets # <<>>
    /\ seen[1] = {}
    /\ slot[1].ready
    /\ seen' = [seen EXCEPT ![1] = {Outcome(slot[1])}]
    /\ UNCHANGED <<queue, th, fstate, locals, slot, writes, crashed, dropped, hist, variantFrame>>

\* The example function returns: main's task goes out of scope.
DropTask ==
    /\ ~crashed
    /\ th[Main].pc = "v_client"
    /\ prog.gets = <<>> \/ seen[1] # {}
    /\ dropped' = TRUE
    /\ th' = [th EXCEPT ![Main].pc = "done"]
    /\ UNCHANGED <<queue, fstate, locals, slot, writes, crashed, seen, hist, variantFrame>>

InitVariants ==
    /\ queue = <<>>
    /\ th = [t \in {Main} \cup Pool |->
                IF t = Main THEN [Idle EXCEPT !.pc = "v_call", !.cm = 1] ELSE Idle]
    /\ InitTasks
    /\ prog \in VariantPrograms
    /\ InitExecGhost
    /\ stop = [w \in Pool |-> FALSE]
    /\ qLock = NoThread
    /\ provider = ProviderReady

NextVariants ==
    \/ \E w \in Pool : RunThread(w) /\ UNCHANGED <<taskVars, execGhost>>
    \/ \E w \in Pool : WakeUp(w) /\ UNCHANGED <<taskVars, execGhost>>
    \/ \E w \in Pool : SpuriousWake(w) /\ UNCHANGED <<taskVars, execGhost>>
    \/ \E t \in {Main} \cup Pool : CallVariant(t)
    \/ \E t \in {Main} \cup Pool : SchedulerAwaitSuspend(t)
    \/ \E t \in {Main} \cup Pool : SchedulerNotify(t)
    \/ \E w \in Pool : ExecuteVariant(w)
    \/ \E w \in Pool : AwaitTransformName(w)
    \/ \E w \in Pool : GetChild(w)
    \/ \E w \in Pool : VariantReturnValue(w)
    \/ \E w \in Pool : VariantUnhandledException(w)
    \/ \E w \in Pool : VariantFinalSuspend(w)
    \/ GetTask
    \/ DropTask

SpecVariants == InitVariants /\ [][NextVariants]_vars

\* Fair scheduling of the variants: a thread that can take its next step
\* takes it.  No fairness for spurious wake-ups, nor for the moment main
\* leaves its scope.
WorkerStep(w) ==
    \/ RunThread(w) /\ UNCHANGED <<taskVars, execGhost>>
    \/ WakeUp(w) /\ UNCHANGED <<taskVars, execGhost>>
    \/ CallVariant(w)
    \/ SchedulerAwaitSuspend(w)
    \/ SchedulerNotify(w)
    \/ ExecuteVariant(w)
    \/ AwaitTransformName(w)
    \/ GetChild(w)
    \/ VariantReturnValue(w)
    \/ VariantUnhandledException(w)
    \/ VariantFinalSuspend(w)

MainStep ==
    \/ CallVariant(Main)
    \/ SchedulerAwaitSuspend(Main)
    \/ SchedulerNotify(Main)
    \/ GetTask

FairVariants ==
    /\ WF_vars(MainStep)
    /\ \A w \in Pool : WF_vars(WorkerStep(w))

FairSpecVariants == SpecVariants /\ FairVariants

\* ---------------------------------------------------------------------
\* C32: the assertion of get_state() never fires.  Whenever a thread is
\* about to call get_state() (in the await_suspend of the task scheduler,
\* in await_transform of a name, in final_suspend, and in return_value and
\* unhandled_exception of the variants that store a result) the state of
\* that task still has an owner, also after the caller has dropped its
\* task; and the process has not been aborted.
CallsGetState(t) ==
    \/ th[t].pc \in {"v_name", "v_final"}
    \/ th[t].pc \in {"v_return", "v_unhandled"} /\ HasResult
StateAsked(t) == IF th[t].pc = "v_sched" THEN th[t].cm ELSE th[t].f
C32_GetStateNeverAsserts ==
    /\ ~crashed
    /\ \A t \in DOMAIN th :
        CallsGetState(t) \/ th[t].pc = "v_sched" => GetState(StateAsked(t))

\* A worker is about to run final_suspend of the task main created, after
\* main has dropped its task: only the worker's next keeps the state.
C32_Witness ==
    \E w \in Pool :
        /\ th[w].pc = "v_final"
        /\ th[w].f = 1
        /\ dropped
        /\ ~HeldByCaller(1) /\ ~HeldByQueue(1) /\ ~HeldByRamp(1)

\* ---------------------------------------------------------------------
\* C37: in 4a and 4b the part of the body before co_await task_scheduler
\* runs on the calling thread, the frame is enqueued on the executor
\* exactly once, and every step after that await runs on a worker thread.
\* The body has at most two parts; the first ran on main, the caller; the
\* second ran on a thread of the pool, and only after the one push; the
\* state is never pushed twice; only threads of the pool execute the
\* co_return, the exception handler or final_suspend; and a frame that has
\* completed was pushed once and ran its two parts.
AfterAwait(t) == th[t].pc \in {"v_return", "v_unhandled", "v_final"}
C37_BodySplitAcrossThreads ==
    Eager =>
        /\ hist.pushes[1] <= 1
        /\ Len(hist.parts[1]) <= 2
        /\ Len(hist.parts[1]) >= 1 => hist.parts[1][1] = Main
        /\ Len(hist.parts[1]) = 2 => hist.parts[1][2] \in Pool /\ hist.pushes[1] = 1
        /\ \A t \in DOMAIN th : AfterAwait(t) => t \in Pool /\ th[t].f = 1
        /\ fstate[1] = "done" => hist.pushes[1] = 1 /\ Len(hist.parts[1]) = 2

\* The frame of coro_4a or coro_4b has completed: its first part ran on
\* main, it was pushed once, and its second part ran on a worker.
C37_Witness ==
    /\ Eager
    /\ fstate[1] = "done"
    /\ hist.pushes[1] = 1
    /\ \E w \in Pool : hist.parts[1] = <<Main, w>>

\* ---------------------------------------------------------------------
\* C34: in 4c, mul_add(2, 4, 6, 8) on the default pool always terminates
\* and returns 56.  While no body throws: a worker that is blocked in get()
\* on a child whose result is not there yet is never the last free worker
\* (the child is being executed by another worker, or it is in the queue
\* and some worker is not inside a body); the process is never aborted;
\* main never receives anything but the value 56; and, when main calls
\* get(), it eventually receives it.
MulAddRuns == prog.variant = "4c" /\ prog.fails = {}
Blocked(t) == th[t].pc = "v_get" /\ ~slot[th[t].cm].ready
Free(w) == th[w].pc \in {"idle", "waiting", "woken"}
Executes(w, c) == th[w].kind = "state" /\ th[w].f = c /\ ~Blocked(w)
Expected == [kind |-> "value", val |-> DOCUMENTED_4C]
C34_Progress ==
    MulAddRuns =>
        /\ ~crashed
        /\ seen[1] \subseteq {Expected}
        /\ \A t \in DOMAIN th :
            Blocked(t) =>
                \/ \E w \in Pool : Executes(w, th[t].cm)
                \/ HeldByQueue(th[t].cm) /\ \E w \in Pool : Free(w)
C34_MulAddTerminates ==
    /\ []C34_Progress
    /\ (MulAddRuns /\ prog.gets # <<>>) => <>(seen[1] = {Expected})

\* mul_add(2, 4, 6, 8) has run on the pool: both multiply frames and the
\* frame of mul_add have completed, and main has received 56 from get().
C34_Witness ==
    /\ MulAddRuns
    /\ seen[1] = {Expected}
    /\ fstate[1] = "done"
    /\ \A c \in Children : fstate[c] = "done"

====
